---- MODULE Spec2Model ----
(***************************************************************************)
(* A model of the HiveMind Copilot VS Code extension: the Hedera session   *)
(* wrapper (HederaService), the Transaction Center and Audit Dashboard     *)
(* tree providers, the location parsing of the audit diagnostics and the   *)
(* deployment pipeline of DeploymentUtils.                                 *)
(*                                                                         *)
(* Each subsystem has its own specification (SpecHedera, SpecTx, ...);     *)
(* the variables of the other subsystems stay at their initial values.     *)
(***************************************************************************)
EXTENDS Integers, Sequences, FiniteSets, TLC

VARIABLES
  \* ---- HederaService (src/hivemind-frontend/src/services/hederaService.ts)
  client,           \* this.client: NoClient (null) or the id of an SDK Client
  accountId,        \* this.accountId ("null" is null)
  privateKey,       \* this.privateKey ("null" is null)
  network,          \* this.network
  connected,        \* this.connected
  nextHandle,       \* SDK side: id the next Client.forTestnet()/forMainnet() gets
  closeCalls,       \* SDK side: how often close() was called on each Client
  lastCall,         \* history: the last call made on the service and its outcome
  prevDisconnect,   \* history: the call before lastCall was disconnect()
  lastSessionCall,  \* history: "disconnect" / "connect" (successful) / "none"
  \* ---- TransactionCenterProvider, flat view (src/unnamed/part_007)
  transactions,     \* this.transactions
  added,            \* history: the transactions given to addTransaction, in order
  flatChildren,     \* what the last getChildren() call returned to the host
  \* ---- AuditDashboardProvider (src/hivemind-frontend/src/views/AuditDashboard.ts)
  vulnerabilities,  \* this.vulnerabilities
  dashDiagnostics,  \* this.diagnosticCollection: the diagnostics it holds
  auditTimers,      \* pending setTimeout callbacks of auditContract (file paths)
  auditTree,        \* what the last getChildren(element) call returned
  \* ---- location parsing (src/unnamed/part_001, part_003, part_006)
  solDiagnostics,   \* SolidityAuditProvider.diagnosticCollection, for the document
  locLast,          \* the last location handler run: its input and what it did
  \* ---- DeploymentUtils (src/hivemind-frontend/src/utils/deploymentUtils.ts)
  deployments,      \* the calls of deployContract: where each stands, what it did
  \* ---- webview panels (src/unnamed/part_005, part_008, part_003)
  panels,           \* per panel holder: the reference it keeps, the panels alive
  \* ---- ApiService (src/unnamed/part_001)
  apiLast,          \* the last request made through ApiService and how it ended
  \* ---- command handlers (src/hivemind-frontend/src/extension/extension.ts,
  \*      src/unnamed/part_003, part_001)
  invocations,      \* the handler runs: the remote calls each made, how it ended
  solVulnerabilities, \* SolidityAuditProvider.vulnerabilities, for the document
  \* ---- MockApiService (src/unnamed/part_001)
  mockCalls,        \* the calls made on the mock: argument, timer, response
  \* ---- chat (src/hivemind-frontend/webview/chat.js,
  \*      src/hivemind-frontend/src/components/chatViewProvider.ts)
  chatInput,        \* chatInput.value, a sequence of characters
  chatLast,         \* history: the last send action, its input, what it posted
  chatMessages,     \* ChatViewProvider._messages
  chatRequests,     \* the runs of _handleChatMessage and their API calls
  typingIndicator,  \* the isTyping of the last typingIndicator posted
  chatView,         \* the messages of the last updateChat posted to the webview
  \* ---- 'hivemind.deployContract' (src/hivemind-frontend/src/extension/extension.ts)
  deployCommands,   \* the runs of the command handler: where each stands
  \* ---- TransactionCenterProvider, grouped view
  \*      (src/hivemind-frontend/src/views/TransactionCenter.ts)
  grouped,          \* this.transactions, and what getChildren last returned
  \* ---- AuditDashboardPanel._getHtmlForWebview (src/unnamed/part_008)
  dashboardHtml,    \* the audit result last rendered and its summary cards
  \* ---- SolidityAuditProvider.auditContract, per document (src/unnamed/part_001)
  solAudit,         \* the active editor, the audits in flight, the stored lists
  \* ---- message handlers of the webview panels (src/unnamed/part_005, part_008)
  panelHandlers,    \* per panel class: the panel, its disposables, its handler runs
  \* ---- activate() and the command registry (src/unnamed/part_003)
  activation        \* the position in activate(), the registered commands

hederaVars == <<client, accountId, privateKey, network, connected,
                nextHandle, closeCalls, lastCall, prevDisconnect, lastSessionCall>>

txVars == <<transactions, added, flatChildren>>

auditVars == <<vulnerabilities, dashDiagnostics, auditTimers, auditTree>>

locVars == <<solDiagnostics, locLast>>

deployVars == <<deployments>>

panelVars == <<panels>>

apiVars == <<apiLast>>

deployCommandVars == <<deployCommands>>

\* the handlers that are followed step by step
groupedVars == <<grouped>>

htmlVars == <<dashboardHtml>>

solAuditVars == <<solAudit>>

panelHandlerVars == <<panelHandlers>>

activationVars == <<activation>>

handlerVars ==
  <<deployCommandVars, groupedVars, htmlVars, solAuditVars, panelHandlerVars, activationVars>>

commandVars == <<invocations, solVulnerabilities, handlerVars>>

\* the user-interface parts: panels, backend requests, command handlers
mockVars == <<mockCalls>>

chatVars == <<mockVars, chatInput, chatLast, chatMessages, chatRequests,
              typingIndicator, chatView>>

uiVars == <<panelVars, apiVars, commandVars, chatVars>>

vars == <<hederaVars, txVars, auditVars, locVars, deployVars, uiVars>>

\* what the HederaService methods leave alone
notHederaVars == <<txVars, auditVars, locVars, deployVars, uiVars>>

(***************************************************************************)
(* Bounds                                                                  *)
(***************************************************************************)
MaxHandles == 3     \* SDK Client objects created in one run
MaxTx == 3          \* addTransaction calls in one run
MaxVulns == 2       \* length of a vulnerability list given to refresh()
MaxAudits == 1      \* auditContract calls whose timer is pending
MaxFindings == 2    \* length of static_analysis in an audit result
DocLineCount == 5   \* lines of the open Solidity document
MaxInputs == 2      \* inputs of the constructor in a compiled ABI
MaxPanels == 2      \* webview panels one holder creates in one run
MaxInvocations == 2 \* command handler runs in one run

(***************************************************************************)
(* HederaService                                                           *)
(***************************************************************************)
NoClient == 0

Handles == 1..MaxHandles

\* the values the callers pass for network / accountId / privateKey
Networks == {"testnet", "mainnet", "devnet"}
AccountIds == {"0.0.1001", "not-an-id", ""}
PrivateKeys == {"302e-valid-key", "not-a-key"}

\* Client.setOperator parses both strings and throws on a malformed one
SetOperatorAccepts(a, k) == a = "0.0.1001" /\ k = "302e-valid-key"

\* JavaScript truthiness of a string-or-null field
Truthy(s) == s # "null" /\ s # ""

NoCall == [name |-> "none", threw |-> "none", sdkCalls |-> 0]

\* the fields right after the field initialisers have run
FreshService ==
  [client |-> NoClient, accountId |-> "null", privateKey |-> "null",
   network |-> "testnet", connected |-> FALSE,
   nextHandle |-> 1, closeCalls |-> [h \in Handles |-> 0],
   threw |-> "none", sessionCall |-> "none"]

\* the service as a record, so that the methods are functions on it
Service ==
  [client |-> client, accountId |-> accountId, privateKey |-> privateKey,
   network |-> network, connected |-> connected,
   nextHandle |-> nextHandle, closeCalls |-> closeCalls,
   threw |-> "none", sessionCall |-> lastSessionCall]

\* connect(network, accountId, privateKey); .threw is the error it throws
connect(s, n, a, k) ==
  IF n \notin {"testnet", "mainnet"}
  THEN [s EXCEPT !.connected = FALSE, !.threw = "Invalid network"]
  ELSE LET s1 == [s EXCEPT !.client = s.nextHandle,
                           !.nextHandle = s.nextHandle + 1]
       IN IF ~SetOperatorAccepts(a, k)
          THEN [s1 EXCEPT !.connected = FALSE, !.threw = "SDK error"]
          ELSE [s1 EXCEPT !.accountId = a, !.privateKey = k, !.network = n,
                          !.connected = TRUE, !.threw = "none",
                          !.sessionCall = "connect"]

\* (mutant of disconnect: closes the client but keeps the reference)
disconnect_keepsClient(s) ==
  IF s.client # NoClient
  THEN [s EXCEPT !.closeCalls[s.client] = @ + 1,
                 !.connected = FALSE, !.threw = "none",
                 !.sessionCall = "disconnect"]
  ELSE [s EXCEPT !.connected = FALSE, !.threw = "none",
                 !.sessionCall = "disconnect"]

\* disconnect()
disconnect(s) ==
  IF s.client # NoClient
  THEN [s EXCEPT !.closeCalls[s.client] = @ + 1, !.client = NoClient,
                 !.connected = FALSE, !.threw = "none",
                 !.sessionCall = "disconnect"]
  ELSE [s EXCEPT !.connected = FALSE, !.threw = "none",
                 !.sessionCall = "disconnect"]

\* isConnected()
isConnected(s) == s.connected /\ s.client # NoClient

\* updateConfig(accountId, privateKey, network): the promise of the inner
\* connect() is dropped, so its rejection never reaches the caller
updateConfig(s, a, k, n) ==
  LET s1 == [s EXCEPT !.accountId = a, !.privateKey = k, !.network = n]
  IN IF s1.connected
     THEN [connect(disconnect(s1), n, a, k) EXCEPT !.threw = "none"]
     ELSE s1

\* connect() needs a fresh Client object unless it throws on the network name
CanConnect(s, n) == n \notin {"testnet", "mainnet"} \/ s.nextHandle <= MaxHandles

Install(s) ==
  /\ client' = s.client
  /\ accountId' = s.accountId
  /\ privateKey' = s.privateKey
  /\ network' = s.network
  /\ connected' = s.connected
  /\ nextHandle' = s.nextHandle
  /\ closeCalls' = s.closeCalls
  /\ lastSessionCall' = s.sessionCall

\* the constructor: initializeFromStoredCredentials runs connect() with the
\* stored credentials when both are set, and swallows its error
StoredCredentials ==
  {[accountId |-> a, privateKey |-> k, network |-> n] :
     a \in AccountIds \cup {"null"}, k \in PrivateKeys \cup {"null"},
     n \in Networks \cup {""}}

initializeFromStoredCredentials(s, cfg) ==
  IF Truthy(cfg.accountId) /\ Truthy(cfg.privateKey)
  THEN [connect(s, IF cfg.network = "" THEN "testnet" ELSE cfg.network,
                cfg.accountId, cfg.privateKey) EXCEPT !.threw = "none"]
  ELSE s

HederaInitWith(cfg) ==
  LET s == initializeFromStoredCredentials(FreshService, cfg)
  IN /\ client = s.client
     /\ accountId = s.accountId
     /\ privateKey = s.privateKey
     /\ network = s.network
     /\ connected = s.connected
     /\ nextHandle = s.nextHandle
     /\ closeCalls = s.closeCalls
     /\ lastSessionCall = s.sessionCall
     /\ lastCall = NoCall
     /\ prevDisconnect = FALSE

HederaInit == \E cfg \in StoredCredentials : HederaInitWith(cfg)

\* a workspace that stores no Hedera credentials
NoStoredCredentials == [accountId |-> "null", privateKey |-> "null", network |-> ""]

Connect ==
  \E n \in Networks, a \in AccountIds, k \in PrivateKeys :
    /\ CanConnect(Service, n)
    /\ LET s == connect(Service, n, a, k)
       IN /\ Install(s)
          /\ lastCall' = [name |-> "connect", threw |-> s.threw, sdkCalls |-> 0]
    /\ prevDisconnect' = (lastCall.name = "disconnect")
    /\ UNCHANGED notHederaVars

Disconnect ==
  /\ Install(disconnect(Service))
  /\ lastCall' = [name |-> "disconnect", threw |-> "none", sdkCalls |-> 0]
  /\ prevDisconnect' = (lastCall.name = "disconnect")
  /\ UNCHANGED notHederaVars

UpdateConfig ==
  \E n \in Networks, a \in AccountIds, k \in PrivateKeys :
    /\ ~connected \/ CanConnect(Service, n)
    /\ Install(updateConfig(Service, a, k, n))
    /\ lastCall' = [name |-> "updateConfig", threw |-> "none", sdkCalls |-> 0]
    /\ prevDisconnect' = (lastCall.name = "disconnect")
    /\ UNCHANGED notHederaVars

\* ---- the blockchain operations: the outcomes ([threw, sdkCalls]) each can
\* have in state s; what the SDK answers is not decided by this repository
NotConnected == [threw |-> "Not connected to Hedera", sdkCalls |-> 0]

\* an operation that makes up to n SDK round trips, any of which may fail
SdkOutcomes(n) ==
  {[threw |-> "SDK error", sdkCalls |-> i] : i \in 1..n}
    \cup {[threw |-> "none", sdkCalls |-> n]}

createTopic(s) ==
  IF s.client = NoClient THEN {NotConnected} ELSE SdkOutcomes(2)

submitMessage(s) ==
  IF s.client = NoClient THEN {NotConnected} ELSE SdkOutcomes(2)

callContractMethod(s) ==
  IF s.client = NoClient THEN {NotConnected} ELSE SdkOutcomes(1)

\* past the guard, `new (this.client as any).AccountBalanceQuery()` is a
\* TypeError: a Client has no such member
getAccountBalance(s) ==
  IF s.client = NoClient \/ ~Truthy(s.accountId)
  THEN {NotConnected}
  ELSE {[threw |-> "TypeError", sdkCalls |-> 0]}

deployContract(s) ==
  IF s.client = NoClient THEN {NotConnected} ELSE SdkOutcomes(4)

registerContract(s) ==
  IF s.client = NoClient THEN {NotConnected} ELSE submitMessage(s)

\* the registry / agent operations return mock data
MockOutcome(s) ==
  IF s.client = NoClient THEN {NotConnected}
  ELSE {[threw |-> "none", sdkCalls |-> 0]}

getContractInfo(s) == MockOutcome(s)

getDeployedContracts(s) == MockOutcome(s)

useAgent(s) == MockOutcome(s)

getAgents(s) == MockOutcome(s)

Operations ==
  {"createTopic", "submitMessage", "callContractMethod", "getAccountBalance",
   "deployContract", "registerContract", "getContractInfo",
   "getDeployedContracts", "useAgent", "getAgents"}

\* an operation reads the session and changes none of its fields
Invoked(name, outcomes) ==
  {[name |-> name, threw |-> r.threw, sdkCalls |-> r.sdkCalls] : r \in outcomes}

CreateTopic ==
  /\ lastCall' \in Invoked("createTopic", createTopic(Service))
  /\ prevDisconnect' = (lastCall.name = "disconnect")
  /\ UNCHANGED <<client, accountId, privateKey, network, connected,
                 nextHandle, closeCalls, lastSessionCall>>
  /\ UNCHANGED notHederaVars

SubmitMessage ==
  /\ lastCall' \in Invoked("submitMessage", submitMessage(Service))
  /\ prevDisconnect' = (lastCall.name = "disconnect")
  /\ UNCHANGED <<client, accountId, privateKey, network, connected,
                 nextHandle, closeCalls, lastSessionCall>>
  /\ UNCHANGED notHederaVars

CallContractMethod ==
  /\ lastCall' \in Invoked("callContractMethod", callContractMethod(Service))
  /\ prevDisconnect' = (lastCall.name = "disconnect")
  /\ UNCHANGED <<client, accountId, privateKey, network, connected,
                 nextHandle, closeCalls, lastSessionCall>>
  /\ UNCHANGED notHederaVars

GetAccountBalance ==
  /\ lastCall' \in Invoked("getAccountBalance", getAccountBalance(Service))
  /\ prevDisconnect' = (lastCall.name = "disconnect")
  /\ UNCHANGED <<client, accountId, privateKey, network, connected,
                 nextHandle, closeCalls, lastSessionCall>>
  /\ UNCHANGED notHederaVars

DeployContractOp ==
  /\ lastCall' \in Invoked("deployContract", deployContract(Service))
  /\ prevDisconnect' = (lastCall.name = "disconnect")
  /\ UNCHANGED <<client, accountId, privateKey, network, connected,
                 nextHandle, closeCalls, lastSessionCall>>
  /\ UNCHANGED notHederaVars

RegisterContract ==
  /\ lastCall' \in Invoked("registerContract", registerContract(Service))
  /\ prevDisconnect' = (lastCall.name = "disconnect")
  /\ UNCHANGED <<client, accountId, privateKey, network, connected,
                 nextHandle, closeCalls, lastSessionCall>>
  /\ UNCHANGED notHederaVars

GetContractInfo ==
  /\ lastCall' \in Invoked("getContractInfo", getContractInfo(Service))
  /\ prevDisconnect' = (lastCall.name = "disconnect")
  /\ UNCHANGED <<client, accountId, privateKey, network, connected,
                 nextHandle, closeCalls, lastSessionCall>>
  /\ UNCHANGED notHederaVars

GetDeployedContracts ==
  /\ lastCall' \in Invoked("getDeployedContracts", getDeployedContracts(Service))
  /\ prevDisconnect' = (lastCall.name = "disconnect")
  /\ UNCHANGED <<client, accountId, privateKey, network, connected,
                 nextHandle, closeCalls, lastSessionCall>>
  /\ UNCHANGED notHederaVars

UseAgent ==
  /\ lastCall' \in Invoked("useAgent", useAgent(Service))
  /\ prevDisconnect' = (lastCall.name = "disconnect")
  /\ UNCHANGED <<client, accountId, privateKey, network, connected,
                 nextHandle, closeCalls, lastSessionCall>>
  /\ UNCHANGED notHederaVars

GetAgents ==
  /\ lastCall' \in Invoked("getAgents", getAgents(Service))
  /\ prevDisconnect' = (lastCall.name = "disconnect")
  /\ UNCHANGED <<client, accountId, privateKey, network, connected,
                 nextHandle, closeCalls, lastSessionCall>>
  /\ UNCHANGED notHederaVars

HederaNext ==
  \/ Connect
  \/ Disconnect
  \/ UpdateConfig
  \/ CreateTopic
  \/ SubmitMessage
  \/ CallContractMethod
  \/ GetAccountBalance
  \/ DeployContractOp
  \/ RegisterContract
  \/ GetContractInfo
  \/ GetDeployedContracts
  \/ UseAgent
  \/ GetAgents

(***************************************************************************)
(* TransactionCenterProvider, the flat view that registers the             *)
(* 'hivemindTransactionCenter.addTransaction' command                      *)
(***************************************************************************)

\* String.prototype.toLowerCase on the strings that occur in the model
ToLowerCase(s) ==
  CASE s \in {"CONTRACT_DEPLOY", "contract_deploy"} -> "contract_deploy"
    [] s \in {"CONTRACT_CALL", "Contract_Call"} -> "contract_call"
    [] s \in {"TOPIC_CREATE"} -> "topic_create"
    [] s \in {"TOPIC_MESSAGE"} -> "topic_message"
    [] s \in {"TRANSFER", "transfer"} -> "transfer"
    [] s \in {"Critical", "critical"} -> "critical"
    [] s \in {"High", "high", "HIGH"} -> "high"
    [] s \in {"Medium", "medium"} -> "medium"
    [] s \in {"Low", "low", "LOW"} -> "low"
    [] s \in {"Informational", "informational"} -> "informational"
    [] s \in {"Info", "info"} -> "info"
    [] s \in {"Unknown", "unknown"} -> "unknown"
    [] s \in {".SOL", ".sol"} -> ".sol"
    [] s \in {"Contract", "contract"} -> "contract"
    [] s \in {"Deployment", "deployment"} -> "deployment"
    [] s \in {"Call", "call"} -> "call"
    [] s \in {"Topic", "topic"} -> "topic"
    [] s \in {"Creation", "creation"} -> "creation"
    [] s \in {"Message", "message"} -> "message"
    [] OTHER -> s

\* the records callers hand to addTransaction; details is "undefined" when
\* the caller gave none
TxInputs ==
  {[id |-> "deploy-1", type |-> "CONTRACT_DEPLOY", details |-> "0.0.777"],
   [id |-> "call-1", type |-> "Contract_Call", details |-> "undefined"],
   [id |-> "xfer-1", type |-> "TRANSFER", details |-> "undefined"]}

\* the demo transactions getChildren stores when the list is empty
MockTransactions ==
  <<[id |-> "0.0.12345@1626282282.000000000", type |-> "CONTRACT_DEPLOY",
     details |-> "0.0.12345"],
    [id |-> "0.0.12345@1626282283.000000000", type |-> "CONTRACT_CALL",
     details |-> "0.0.12345"],
    [id |-> "0.0.12345@1626282284.000000000", type |-> "TOPIC_CREATE",
     details |-> "0.0.56789"]>>

\* _onDidChangeTreeData.fire(): the host drops what it drew and asks again
FlatInvalidated == [items |-> <<>>, error |-> FALSE, drawn |-> FALSE]

TxInit ==
  /\ transactions = <<>>
  /\ added = <<>>
  /\ flatChildren = FlatInvalidated

\* getTransactionLabel: reading transaction.details.contractId throws a
\* TypeError ("throws") when details is undefined
getTransactionLabel(tx) ==
  LET kind == ToLowerCase(tx.type) IN
  IF kind \in {"contract_deploy", "contract_call", "topic_create", "topic_message"}
  THEN IF tx.details = "undefined" THEN "throws"
       ELSE CASE kind = "contract_deploy" -> "Deploy Contract " \o tx.details
              [] kind = "contract_call" -> "Call on " \o tx.details
              [] kind = "topic_create" -> "Create Topic " \o tx.details
              [] kind = "topic_message" -> "Message to Topic " \o tx.details
  ELSE "Transaction " \o tx.id

\* (mutant of unshift: the new transaction is pushed at the end)
unshift_appends(list, tx) == Append(list, tx)

\* Array.prototype.unshift
unshift(list, tx) == <<tx>> \o list

\* addTransaction(transaction), reached through the command
\* 'hivemindTransactionCenter.addTransaction'; refresh() only fires the
\* change event
AddTransaction ==
  \E tx \in TxInputs :
    /\ Len(added) < MaxTx
    /\ transactions' = unshift(transactions, tx)
    /\ added' = Append(added, tx)
    /\ flatChildren' = FlatInvalidated
    /\ UNCHANGED <<hederaVars, auditVars, locVars, deployVars, uiVars>>

\* getChildren(element) of the flat view
GetChildrenFlat ==
  \E hasElement \in BOOLEAN :
    /\ IF hasElement \/ ~isConnected(Service)
       THEN /\ flatChildren' = [items |-> <<>>, error |-> FALSE, drawn |-> TRUE]
            /\ UNCHANGED transactions
       ELSE LET list == IF Len(transactions) = 0 THEN MockTransactions
                        ELSE transactions
                labels == [i \in 1..Len(list) |-> getTransactionLabel(list[i])]
            IN /\ transactions' = list
               /\ flatChildren' =
                    IF \E i \in 1..Len(list) : labels[i] = "throws"
                    THEN [items |-> <<>>, error |-> TRUE, drawn |-> TRUE]
                    ELSE [items |-> labels, error |-> FALSE, drawn |-> TRUE]
    /\ UNCHANGED <<added, hederaVars, auditVars, locVars, deployVars, uiVars>>

TxNext ==
  \/ AddTransaction
  \/ GetChildrenFlat
  \/ Connect
  \/ Disconnect

(***************************************************************************)
(* AuditDashboardProvider, the severity-grouped tree view                  *)
(***************************************************************************)

\* a vulnerability: line = -1 is an undefined line, file = "" no location
Vuln(id, title, severity, file, line, column) ==
  [id |-> id, title |-> title, severity |-> severity,
   file |-> file, line |-> line, column |-> column]

\* the vulnerabilities callers hand to refresh()
VulnInputs ==
  {Vuln("V-1", "Overflow", "Critical", "a.sol", 7, 2),
   Vuln("V-2", "Reentrancy", "High", "a.sol", 0, 0),
   Vuln("V-3", "", "high", "", -1, 0),
   Vuln("V-4", "Unchecked call", "Medium", "b.sol", 3, 1),
   Vuln("V-5", "Pragma", "LOW", "a.sol", -1, 0),
   Vuln("V-6", "Style", "Unknown", "b.sol", 9, 0)}

RECURSIVE SeqsUpTo(_, _)
SeqsUpTo(S, n) ==
  IF n = 0 THEN {<<>>}
  ELSE LET shorter == SeqsUpTo(S, n - 1)
       IN shorter \cup {Append(s, x) : s \in shorter, x \in S}

VulnLists == SeqsUpTo(VulnInputs, MaxVulns)

FilePaths == {"a.sol", "b.sol"}

\* the list auditContract(code, filePath) builds when its timer fires
mockVulnerabilities(filePath) ==
  <<Vuln("VULN-001", "Reentrancy Vulnerability", "High", filePath, 25, 4),
    Vuln("VULN-002", "Unchecked Return Value", "Medium", filePath, 42, 8)>>

severities == <<"Critical", "High", "Medium", "Low", "Informational">>

\* getSeverityLevel
getSeverityLevel(severity) ==
  CASE ToLowerCase(severity) \in {"critical", "high"} -> "Error"
    [] ToLowerCase(severity) = "medium" -> "Warning"
    [] ToLowerCase(severity) = "low" -> "Information"
    [] OTHER -> "Hint"

\* Math.max(0, (vuln.location.line || 1) - 1)
DiagnosticLine(line) ==
  LET l == (IF line = 0 THEN 1 ELSE line) - 1 IN IF l < 0 THEN 0 ELSE l

\* updateDiagnostics: clear(), then one diagnostic per vulnerability that
\* has a file and a line, grouped by file
updateDiagnostics(vulns) ==
  [f \in FilePaths |->
     LET located == SelectSeq(vulns, LAMBDA v : v.file = f /\ v.line # -1)
     IN [i \in 1..Len(located) |->
           [line |-> DiagnosticLine(located[i].line),
            column |-> located[i].column,
            code |-> located[i].id,
            severity |-> getSeverityLevel(located[i].severity)]]]

\* (mutant of vulnsForSeverity: the severities are compared as written)
vulnsForSeverity_caseSensitive(vulns, severity) ==
  SelectSeq(vulns, LAMBDA v : v.severity = severity)

\* the filter both levels of getChildren use
vulnsForSeverity(vulns, severity) ==
  SelectSeq(vulns, LAMBDA v : ToLowerCase(v.severity) = ToLowerCase(severity))

\* the root level of getChildren: severities.map(...).filter(Boolean)
RECURSIVE severityGroups(_, _)
severityGroups(vulns, i) ==
  IF i > Len(severities) THEN <<>>
  ELSE LET n == Len(vulnsForSeverity(vulns, severities[i]))
           rest == severityGroups(vulns, i + 1)
       IN IF n = 0 THEN rest
          ELSE <<[label |-> severities[i] \o " (" \o ToString(n) \o ")",
                  contextValue |-> "severity-" \o ToLowerCase(severities[i])]>>
                 \o rest

\* the elements the host passes to getChildren
TreeElements ==
  {"root", "vulnerability"}
    \cup {"severity-" \o ToLowerCase(severities[i]) : i \in 1..Len(severities)}

\* element.contextValue.replace('severity-', '')
SeverityOf(element) ==
  CHOOSE s \in {ToLowerCase(severities[i]) : i \in 1..Len(severities)} :
    element = "severity-" \o s

\* getChildren(element)
getChildren(vulns, element) ==
  IF Len(vulns) = 0
  THEN <<[label |-> "No Vulnerabilities Found", contextValue |-> "undefined"]>>
  ELSE IF element = "root" THEN severityGroups(vulns, 1)
  ELSE IF element # "vulnerability"
  THEN LET found == vulnsForSeverity(vulns, SeverityOf(element))
       IN [i \in 1..Len(found) |->
             [label |-> IF found[i].title = "" THEN "Unnamed Vulnerability"
                        ELSE found[i].title,
              contextValue |-> "vulnerability"]]
  ELSE <<>>

\* _onDidChangeTreeData.fire(): the host drops what it drew and asks again
TreeInvalidated == [element |-> "none", items |-> <<>>]

AuditInit ==
  /\ vulnerabilities = <<>>
  /\ dashDiagnostics = [f \in FilePaths |-> <<>>]
  /\ auditTimers = <<>>
  /\ auditTree = TreeInvalidated

\* (mutant of refresh: the new list is added to the old one)
refresh_appends(old, new) == old \o new

\* refresh(vulnerabilities): the list it stores
refresh(old, new) == new

\* refresh(vulnerabilities) called by the extension: store the list, fire
\* the change event, rebuild the diagnostics
Refresh ==
  \E vulns \in VulnLists :
    /\ vulnerabilities' = refresh(vulnerabilities, vulns)
    /\ dashDiagnostics' = updateDiagnostics(vulnerabilities')
    /\ auditTree' = TreeInvalidated
    /\ UNCHANGED <<auditTimers, hederaVars, txVars, locVars, deployVars, uiVars>>

\* the host asks for the children of an element
GetChildrenAudit ==
  \E element \in TreeElements :
    /\ auditTree' = [element |-> element,
                     items |-> getChildren(vulnerabilities, element)]
    /\ UNCHANGED <<vulnerabilities, dashDiagnostics, auditTimers,
                   hederaVars, txVars, locVars, deployVars, uiVars>>

\* auditContract(code, filePath) up to the setTimeout call
AuditContractStart ==
  \E filePath \in FilePaths :
    /\ Len(auditTimers) < MaxAudits
    /\ auditTimers' = Append(auditTimers, filePath)
    /\ UNCHANGED <<vulnerabilities, dashDiagnostics, auditTree,
                   hederaVars, txVars, locVars, deployVars, uiVars>>

\* the timer of auditContract fires: refresh(mockVulnerabilities), resolve
AuditContractDone ==
  /\ auditTimers # <<>>
  /\ vulnerabilities' =
       refresh(vulnerabilities, mockVulnerabilities(Head(auditTimers)))
  /\ dashDiagnostics' = updateDiagnostics(vulnerabilities')
  /\ auditTimers' = Tail(auditTimers)
  /\ auditTree' = TreeInvalidated
  /\ UNCHANGED <<hederaVars, txVars, locVars, deployVars, uiVars>>

AuditNext ==
  \/ Refresh
  \/ GetChildrenAudit
  \/ AuditContractStart
  \/ AuditContractDone

(***************************************************************************)
(* Location parsing: /line[s]?\s+(\d+)(?:-(\d+))?/i in                     *)
(* SolidityAuditProvider.updateDiagnostics and the showVulnerability /     *)
(* applyFix handlers.  A string is the sequence of its characters.         *)
(***************************************************************************)
Digits == <<"0", "1", "2", "3", "4", "5", "6", "7", "8", "9">>

IsDigit(c) == \E d \in 1..Len(Digits) : Digits[d] = c

DigitValue(c) == (CHOOSE d \in 1..Len(Digits) : Digits[d] = c) - 1

IsSpace(c) == c \in {" ", "\t"}

\* the /i flag, on the letters of the pattern
LowerChar(c) ==
  CASE c = "L" -> "l" [] c = "I" -> "i" [] c = "N" -> "n"
    [] c = "E" -> "e" [] c = "S" -> "s" [] OTHER -> c

\* how many characters from position i on are digits / white space
RECURSIVE DigitRun(_, _)
DigitRun(s, i) ==
  IF i <= Len(s) /\ IsDigit(s[i]) THEN 1 + DigitRun(s, i + 1) ELSE 0

RECURSIVE SpaceRun(_, _)
SpaceRun(s, i) ==
  IF i <= Len(s) /\ IsSpace(s[i]) THEN 1 + SpaceRun(s, i + 1) ELSE 0

\* parseInt of the digits s[i .. i+n-1]
RECURSIVE parseInt(_, _, _)
parseInt(s, i, n) ==
  IF n = 0 THEN 0
  ELSE 10 * parseInt(s, i, n - 1) + DigitValue(s[i + n - 1])

NoMatch == [matched |-> FALSE, hasEnd |-> FALSE, first |-> 0, second |-> 0]

\* the pattern tried at position i: "line", an optional "s", white space,
\* digits, and optionally "-" and digits
MatchAt(s, i) ==
  IF ~(i + 3 <= Len(s)
       /\ <<LowerChar(s[i]), LowerChar(s[i + 1]),
            LowerChar(s[i + 2]), LowerChar(s[i + 3])>> = <<"l", "i", "n", "e">>)
  THEN NoMatch
  ELSE LET j == IF i + 4 <= Len(s) /\ LowerChar(s[i + 4]) = "s"
                THEN i + 5 ELSE i + 4
           w == SpaceRun(s, j)
           d == DigitRun(s, j + w)
           p == j + w + d
           e == IF p <= Len(s) /\ s[p] = "-" THEN DigitRun(s, p + 1) ELSE 0
       IN IF w = 0 \/ d = 0 THEN NoMatch
          ELSE [matched |-> TRUE, hasEnd |-> e > 0,
                first |-> parseInt(s, j + w, d),
                second |-> IF e > 0 THEN parseInt(s, p + 1, e) ELSE 0]

\* String.prototype.match: the leftmost position where the pattern matches
match(s) ==
  LET hits == {i \in 1..Len(s) : MatchAt(s, i).matched}
  IN IF hits = {} THEN NoMatch
     ELSE MatchAt(s, CHOOSE i \in hits : \A k \in hits : i <= k)

\* a location as the handlers receive it: missing (undefined) or a string
Location(text) == [defined |-> TRUE, text |-> text]

MissingLocation == [defined |-> FALSE, text |-> <<>>]

Locations ==
  {MissingLocation,
   Location(<<>>),
   Location(<<"l", "i", "n", "e", " ", "2">>),
   Location(<<"l", "i", "n", "e", "s", " ", "2", "-", "3">>),
   Location(<<"a", "t", " ", "L", "i", "n", "e", " ", "1", "0">>),
   Location(<<"l", "i", "n", "e", "2">>),
   Location(<<"l", "i", "n", "e", "s", " ", "x">>),
   Location(<<"c", "o", "l", " ", "3">>)}

\* vuln.location?.match(...)
lineMatch(location) ==
  IF location.defined THEN match(location.text) ELSE NoMatch

\* startLine and endLine, 0-based
startLine(m) == m.first - 1

endLine(m) == IF m.hasEnd THEN m.second - 1 ELSE m.first - 1

\* new vscode.Position(startLine, 0) and document.lineAt(endLine) throw on
\* a line outside the document
RangeThrows(m) ==
  startLine(m) < 0 \/ endLine(m) < 0 \/ endLine(m) >= DocLineCount

\* the files a vulnerability names; openTextDocument fails on the second
VulnFiles == {"a.sol", "gone.sol"}

OpenFails(filePath) == filePath = "gone.sol"

\* static_analysis of an audit result
Findings ==
  SeqsUpTo({[title |-> ti, location |-> l] :
              ti \in {"Reentrancy"}, l \in Locations}, MaxFindings)

NoEffect ==
  [selection |-> FALSE, edit |-> FALSE, error |-> FALSE,
   first |-> 0, last |-> 0]

LocInit ==
  /\ solDiagnostics = <<>>
  /\ locLast = [handler |-> "none", vulns |-> <<>>, filePath |-> "a.sol"]
                 @@ NoEffect

\* the forEach of updateDiagnostics: the diagnostics pushed for vulns[i..],
\* each tagged with the index of its vulnerability
RECURSIVE DiagnosticsFrom(_, _)
DiagnosticsFrom(vulns, i) ==
  IF i > Len(vulns) THEN <<>>
  ELSE LET m == lineMatch(vulns[i].location)
       IN IF ~m.matched THEN DiagnosticsFrom(vulns, i + 1)
          ELSE <<[of |-> i, code |-> vulns[i].title,
                  first |-> startLine(m), last |-> endLine(m)]>>
                 \o DiagnosticsFrom(vulns, i + 1)

\* the forEach of updateDiagnostics throws
updateDiagnosticsThrows(vulns) ==
  \E i \in 1..Len(vulns) :
    /\ lineMatch(vulns[i].location).matched
    /\ RangeThrows(lineMatch(vulns[i].location))

\* what the collection holds for the document after updateDiagnostics
publishedDiagnostics(vulns) ==
  IF Len(vulns) = 0 \/ updateDiagnosticsThrows(vulns) THEN <<>>
  ELSE DiagnosticsFrom(vulns, 1)

\* updateDiagnostics(document, auditResult): delete, then set what the
\* forEach collected; an exception in the forEach leaves the entry deleted
UpdateDiagnostics ==
  \E vulns \in Findings :
    LET throws == updateDiagnosticsThrows(vulns)
    IN /\ solDiagnostics' = publishedDiagnostics(vulns)
       /\ locLast' = [handler |-> "updateDiagnostics", vulns |-> vulns,
                      filePath |-> "a.sol"]
                       @@ [NoEffect EXCEPT !.error = throws]
       /\ UNCHANGED <<hederaVars, txVars, auditVars, deployVars, uiVars>>

\* what a handler does once the document is open and the location matched
Located(m, effect) ==
  IF RangeThrows(m) THEN [NoEffect EXCEPT !.error = TRUE]
  ELSE [NoEffect EXCEPT ![effect] = TRUE,
                        !.first = startLine(m), !.last = endLine(m)]

\* showVulnerability(message) of the webview panel: parse first, then open
showVulnerability(location, filePath) ==
  LET m == lineMatch(location)
  IN IF ~m.matched THEN NoEffect
     ELSE IF OpenFails(filePath) THEN [NoEffect EXCEPT !.error = TRUE]
     ELSE Located(m, "selection")

\* applyFix(message) of the webview panel: open first, then parse
applyFix(location, filePath) ==
  LET m == lineMatch(location)
  IN IF OpenFails(filePath) THEN [NoEffect EXCEPT !.error = TRUE]
     ELSE IF ~m.matched THEN NoEffect
     ELSE Located(m, "edit")

\* AuditDashboardProvider.showVulnerability(filePath, location): open
\* first; location.match on an undefined location is a TypeError, which the
\* catch block shows as an error message
dashboardShowVulnerability(location, filePath) ==
  IF OpenFails(filePath) THEN [NoEffect EXCEPT !.error = TRUE]
  ELSE IF ~location.defined THEN [NoEffect EXCEPT !.error = TRUE]
  ELSE LET m == match(location.text)
       IN IF m.matched THEN Located(m, "selection") ELSE NoEffect

\* the record of one handler run on one vulnerability
HandlerRun(handler, location, filePath, effect) ==
  [handler |-> handler,
   vulns |-> <<[title |-> "Reentrancy", location |-> location]>>,
   filePath |-> filePath] @@ effect

ShowVulnerability ==
  \E location \in Locations, filePath \in VulnFiles :
    /\ locLast' = HandlerRun("showVulnerability", location, filePath,
                             showVulnerability(location, filePath))
    /\ UNCHANGED <<solDiagnostics, hederaVars, txVars, auditVars, deployVars, uiVars>>

ApplyFix ==
  \E location \in Locations, filePath \in VulnFiles :
    /\ locLast' = HandlerRun("applyFix", location, filePath,
                             applyFix(location, filePath))
    /\ UNCHANGED <<solDiagnostics, hederaVars, txVars, auditVars, deployVars, uiVars>>

DashboardShowVulnerability ==
  \E location \in Locations, filePath \in VulnFiles :
    /\ locLast' = HandlerRun("dashboardShowVulnerability", location, filePath,
                             dashboardShowVulnerability(location, filePath))
    /\ UNCHANGED <<solDiagnostics, hederaVars, txVars, auditVars, deployVars, uiVars>>

LocNext ==
  \/ UpdateDiagnostics
  \/ ShowVulnerability
  \/ ApplyFix
  \/ DashboardShowVulnerability

(***************************************************************************)
(* DeploymentUtils.deployContract                                          *)
(* (src/hivemind-frontend/src/utils/deploymentUtils.ts)                    *)
(*                                                                         *)
(* deployContract is an async function: it runs up to its next await, and  *)
(* other handlers (connect, disconnect, a second deployContract) run while *)
(* it waits.  There is one action per await that settles.                  *)
(***************************************************************************)

\* the calls of deployContract that are followed
DeployInvocations == {1, 2}

\* the steps of the pipeline, in the order the code names them
Pipeline == <<"compile", "prompt", "deploy", "register", "append">>

\* the files deployContract is called with
DeployFiles == {"Token.sol", "Token.SOL", "notes.txt", "missing.sol"}

\* fs.existsSync
existsSync(filePath) == filePath # "missing.sol"

\* path.extname
extname(filePath) ==
  CASE filePath = "Token.sol" -> ".sol"
    [] filePath = "Token.SOL" -> ".SOL"
    [] filePath = "notes.txt" -> ".txt"
    [] filePath = "missing.sol" -> ".sol"

\* SolidityUtils.isSolidityFile
isSolidityFile(filePath) == ToLowerCase(extname(filePath)) = ".sol"

\* the types of constructor inputs that occur in a compiled ABI
ParamTypes == {"uint256", "address[]"}

\* what the remote compile call settles with: the request is rejected, or
\* it resolves with a body the server chose (abi and bytecode may be absent)
CompileResults ==
  {[settled |-> "rejected", success |-> FALSE, abi |-> FALSE,
    bytecode |-> FALSE, inputs |-> <<>>]}
    \cup {[settled |-> "resolved", success |-> FALSE, abi |-> FALSE,
           bytecode |-> FALSE, inputs |-> <<>>]}
    \cup {[settled |-> "resolved", success |-> TRUE, abi |-> FALSE,
           bytecode |-> TRUE, inputs |-> <<>>]}
    \cup {[settled |-> "resolved", success |-> TRUE, abi |-> TRUE,
           bytecode |-> b, inputs |-> ts] :
            b \in BOOLEAN, ts \in SeqsUpTo(ParamTypes, MaxInputs)}

\* what showInputBox resolves with; "undefined" is a dismissed box
PromptAnswers == {"undefined", "42", "0xabc"}

\* JSON.parse(param) throws
JsonParseThrows(param) == param \notin {"42"}

\* convertParam(param, type) throws: only the array branch can, in JSON.parse
convertParamThrows(param, type) ==
  CASE type = "uint256" -> FALSE
    [] type = "address[]" -> JsonParseThrows(param)

\* a call of deployContract that has not been made yet
NotCalled ==
  [pc |-> "idle", log |-> <<>>, outcomes |-> <<>>, pending |-> <<>>,
   bytecode |-> FALSE, infoShown |-> FALSE, errorShown |-> FALSE,
   threw |-> FALSE, cancelled |-> FALSE, overlapped |-> FALSE]

DeployInit == deployments = [p \in DeployInvocations |-> NotCalled]

\* history: a step of the pipeline is entered / has settled
begin(d, step) == [d EXCEPT !.log = Append(@, step)]

settle(d, outcome) == [d EXCEPT !.outcomes = Append(@, outcome)]

\* the catch block of deployContract: showErrorMessage, then rethrow
catchBlock(d) ==
  [d EXCEPT !.pc = "failed", !.pending = <<>>, !.errorShown = TRUE,
            !.threw = TRUE]

\* a call of deployContract is waiting for something
InFlight(d) == d.pc \in {"compiling", "prompting", "deploying", "registering"}

\* (mutant of startDeploy: a call made while another is in flight returns
\* at once)
startDeploy_guarded(d, filePath, busy) ==
  IF busy THEN d
  ELSE IF ~existsSync(filePath) \/ ~isSolidityFile(filePath)
  THEN catchBlock(d)
  ELSE [begin(d, "compile") EXCEPT !.pc = "compiling"]

\* deployContract up to `await apiService.compileContract(code)`; busy says
\* that another call is in flight, which the code never looks at (it is
\* kept as history)
startDeploy(d, filePath, busy) ==
  IF ~existsSync(filePath) \/ ~isSolidityFile(filePath)
  THEN catchBlock([d EXCEPT !.overlapped = busy])
  ELSE [begin(d, "compile") EXCEPT !.pc = "compiling", !.overlapped = busy]

\* `await hederaService.deployContract(...)` is reached with the session s
callDeploy(d, s) ==
  LET d1 == begin(d, "deploy")
  IN IF deployContract(s) = {NotConnected}
     THEN catchBlock(settle(d1, "failed"))
     ELSE [d1 EXCEPT !.pc = "deploying"]

\* the compile call settles with r: the success check, then
\* getConstructorParams up to its first showInputBox
afterCompile(d, r, s) ==
  IF r.settled = "rejected" \/ ~r.success
  THEN catchBlock(settle(d, "failed"))
  ELSE LET d1 == begin([settle(d, "ok") EXCEPT !.bytecode = r.bytecode],
                       "prompt")
       IN IF ~r.abi
          THEN catchBlock(settle(d1, "failed"))
          ELSE IF r.inputs = <<>>
               THEN callDeploy(settle(d1, "ok"), s)
               ELSE [d1 EXCEPT !.pc = "prompting", !.pending = r.inputs]

\* a showInputBox of getConstructorParams resolves with answer
afterPrompt(d, answer, s) ==
  IF answer = "undefined"
  THEN catchBlock(settle([d EXCEPT !.cancelled = TRUE], "failed"))
  ELSE IF convertParamThrows(answer, Head(d.pending))
  THEN catchBlock(settle(d, "failed"))
  ELSE IF Len(d.pending) = 1
       THEN callDeploy(settle([d EXCEPT !.pending = <<>>], "ok"), s)
       ELSE [d EXCEPT !.pending = Tail(@)]

\* hederaService.deployContract settles with r; then registerContract is
\* called with the session s
afterDeploy(d, r, s) ==
  IF r.threw # "none"
  THEN catchBlock(settle(d, "failed"))
  ELSE LET d1 == begin(settle(d, "ok"), "register")
       IN IF registerContract(s) = {NotConnected}
          THEN catchBlock(settle(d1, "failed"))
          ELSE [d1 EXCEPT !.pc = "registering"]

\* (mutant of afterRegister: a failed registration is not thrown)
afterRegister_ignoresFailure(d, r) ==
  LET d1 == [settle(d, IF r.threw # "none" THEN "failed" ELSE "ok")
               EXCEPT !.infoShown = TRUE]
  IN IF ~d.bytecode
     THEN catchBlock(d1)
     ELSE [settle(begin(d1, "append"), "ok") EXCEPT !.pc = "done"]

\* hederaService.registerContract settles with r; then the success message
\* and executeCommand('hivemindTransactionCenter.addTransaction', ...), whose
\* argument reads compilationResult.bytecode.length
afterRegister(d, r) ==
  IF r.threw # "none"
  THEN catchBlock(settle(d, "failed"))
  ELSE LET d1 == [settle(d, "ok") EXCEPT !.infoShown = TRUE]
       IN IF ~d.bytecode
          THEN catchBlock(d1)
          ELSE [settle(begin(d1, "append"), "ok") EXCEPT !.pc = "done"]

\* the Transaction record call p hands to addTransaction
DeployRecord(p) ==
  [id |-> "deploy-" \o ToString(p), type |-> "CONTRACT_DEPLOY",
   details |-> "0.0.777"]

StartDeploy ==
  \E p \in DeployInvocations, filePath \in DeployFiles :
    /\ deployments[p].pc = "idle"
    /\ deployments' =
         [deployments EXCEPT ![p] =
            startDeploy(@, filePath,
                        \E q \in DeployInvocations \ {p} : InFlight(deployments[q]))]
    /\ UNCHANGED <<hederaVars, txVars, auditVars, locVars, uiVars>>

CompileSettles ==
  \E p \in DeployInvocations, r \in CompileResults :
    /\ deployments[p].pc = "compiling"
    /\ deployments' = [deployments EXCEPT ![p] = afterCompile(@, r, Service)]
    /\ UNCHANGED <<hederaVars, txVars, auditVars, locVars, uiVars>>

PromptAnswered ==
  \E p \in DeployInvocations, answer \in PromptAnswers :
    /\ deployments[p].pc = "prompting"
    /\ deployments' = [deployments EXCEPT ![p] = afterPrompt(@, answer, Service)]
    /\ UNCHANGED <<hederaVars, txVars, auditVars, locVars, uiVars>>

\* the SDK round trips of hederaService.deployContract are over
DeploySettles ==
  \E p \in DeployInvocations, r \in SdkOutcomes(4) :
    /\ deployments[p].pc = "deploying"
    /\ deployments' = [deployments EXCEPT ![p] = afterDeploy(@, r, Service)]
    /\ UNCHANGED <<hederaVars, txVars, auditVars, locVars, uiVars>>

\* the SDK round trips of hederaService.registerContract are over; the
\* addTransaction command runs the handler of the flat Transaction Center
RegisterSettles ==
  \E p \in DeployInvocations, r \in SdkOutcomes(2) :
    /\ deployments[p].pc = "registering"
    /\ deployments' = [deployments EXCEPT ![p] = afterRegister(@, r)]
    /\ IF deployments'[p].pc = "done"
       THEN /\ transactions' = unshift(transactions, DeployRecord(p))
            /\ added' = Append(added, DeployRecord(p))
            /\ flatChildren' = FlatInvalidated
       ELSE UNCHANGED txVars
    /\ UNCHANGED <<hederaVars, auditVars, locVars, uiVars>>

\* ---- the session commands the user can run while a deployment waits
\* (src/unnamed/part_003); "undefined" is a setting that is not set
WorkspaceSettings ==
  {[hederaNetwork |-> "undefined", hederaAccountId |-> "undefined",
    hederaPrivateKey |-> "undefined"],
   [hederaNetwork |-> "testnet", hederaAccountId |-> "0.0.1001",
    hederaPrivateKey |-> "302e-valid-key"]}

\* ConfigUtils.getHederaNetwork / getHederaAccountId / getHederaPrivateKey
getHederaNetwork(cfg) ==
  IF cfg.hederaNetwork \in {"undefined", ""} THEN "testnet" ELSE cfg.hederaNetwork

getHederaAccountId(cfg) ==
  IF cfg.hederaAccountId \in {"undefined", ""} THEN "" ELSE cfg.hederaAccountId

getHederaPrivateKey(cfg) ==
  IF cfg.hederaPrivateKey \in {"undefined", ""} THEN "" ELSE cfg.hederaPrivateKey

\* 'hivemind.connectHedera': connect() with the configured values; its
\* error ends in an error message
ConnectHederaCommand ==
  \E cfg \in WorkspaceSettings :
    /\ CanConnect(Service, getHederaNetwork(cfg))
    /\ LET s == connect(Service, getHederaNetwork(cfg), getHederaAccountId(cfg),
                        getHederaPrivateKey(cfg))
       IN /\ Install(s)
          /\ lastCall' = [name |-> "connect", threw |-> s.threw, sdkCalls |-> 0]
    /\ prevDisconnect' = (lastCall.name = "disconnect")
    /\ UNCHANGED notHederaVars

\* 'hivemind.disconnectHedera': disconnect(), then a message
DisconnectHederaCommand ==
  /\ Install(disconnect(Service))
  /\ lastCall' = [name |-> "disconnect", threw |-> "none", sdkCalls |-> 0]
  /\ prevDisconnect' = (lastCall.name = "disconnect")
  /\ UNCHANGED notHederaVars

DeployNext ==
  \/ StartDeploy
  \/ CompileSettles
  \/ PromptAnswered
  \/ DeploySettles
  \/ RegisterSettles
  \/ ConnectHederaCommand
  \/ DisconnectHederaCommand

(***************************************************************************)
(* Webview panels: AgentHubPanel (src/unnamed/part_005),                   *)
(* AuditDashboardPanel (src/unnamed/part_008) and the showAgentHub /       *)
(* showAuditDashboard functions of src/unnamed/part_003.  The two pairs    *)
(* belong to two builds of the extension; each holder keeps its own        *)
(* reference.  A panel the host has disposed has fired onDidDispose.       *)
(***************************************************************************)
NoPanel == 0

PanelIds == 1..MaxPanels

\* the static currentPanel of the two classes, the module variables of
\* part_003
PanelHolders ==
  {"AgentHubPanel", "AuditDashboardPanel", "agentHubPanel", "auditDashboardPanel"}

\* the audit results a show request carries: none, findings that have a
\* severity, a finding the backend sent without one
NoAuditResult == [defined |-> FALSE, static_analysis |-> <<>>]

AuditResult(findings) == [defined |-> TRUE, static_analysis |-> findings]

AuditResults ==
  {NoAuditResult,
   AuditResult(<<[title |-> "Reentrancy", severity |-> "High",
                  location |-> Location(<<"l", "i", "n", "e", " ", "2">>)]>>),
   AuditResult(<<[title |-> "Overflow", severity |-> "Medium",
                  location |-> Location(<<"l", "i", "n", "e", "s", " ", "2", "-", "3">>)]>>),
   AuditResult(<<[title |-> "Reentrancy", severity |-> "undefined",
                  location |-> MissingLocation]>>)}

\* static_analysis of auditResult (`auditResult?.static_analysis || []`)
staticAnalysis(auditResult) ==
  IF auditResult.defined THEN auditResult.static_analysis ELSE <<>>

\* AuditDashboardPanel._getHtmlForWebview throws: vuln.severity.toLowerCase()
\* on a finding without severity is a TypeError
getHtmlForWebviewThrows(auditResult) ==
  \E i \in 1..Len(staticAnalysis(auditResult)) :
    staticAnalysis(auditResult)[i].severity = "undefined"

\* no panel was ever created
NoPanels ==
  [current |-> NoPanel, live |-> {}, listening |-> {}, nextPanel |-> 1,
   shown |-> NoAuditResult]

PanelInit == panels = [h \in PanelHolders |-> NoPanels]

\* vscode.window.createWebviewPanel
createWebviewPanel(ps) ==
  [ps EXCEPT !.live = @ \cup {ps.nextPanel}, !.nextPanel = @ + 1]

\* AgentHubPanel.createOrShow: the constructor sets the html, registers
\* onDidDispose; then currentPanel is assigned
createOrShowAgentHub(ps) ==
  IF ps.current # NoPanel
  THEN ps
  ELSE [createWebviewPanel(ps) EXCEPT !.current = ps.nextPanel,
                                      !.listening = @ \cup {ps.nextPanel}]

\* AuditDashboardPanel.createOrShow(extensionUri, apiService, auditResult):
\* the constructor builds the html from auditResult before it registers
\* onDidDispose; when that throws, currentPanel is never assigned
createOrShowAuditDashboard(ps, auditResult) ==
  IF ps.current # NoPanel
  THEN IF getHtmlForWebviewThrows(auditResult)
       THEN ps
       ELSE [ps EXCEPT !.shown = auditResult]
  ELSE IF getHtmlForWebviewThrows(auditResult)
       THEN createWebviewPanel(ps)
       ELSE [createWebviewPanel(ps) EXCEPT !.current = ps.nextPanel,
                                           !.listening = @ \cup {ps.nextPanel},
                                           !.shown = auditResult]

\* showAgentHub / showAuditDashboard of part_003: the module variable is
\* assigned the result of createWebviewPanel itself
showPanel(ps) ==
  IF ps.current # NoPanel
  THEN ps
  ELSE [createWebviewPanel(ps) EXCEPT !.current = ps.nextPanel,
                                      !.listening = @ \cup {ps.nextPanel}]

\* the host disposes panel id (the user closed it) and fires onDidDispose:
\* the listener, where one was registered, clears the reference
onDidDispose(ps, id) ==
  [ps EXCEPT !.live = @ \ {id},
             !.current = IF id \in ps.listening THEN NoPanel ELSE @,
             !.shown = IF id \in ps.listening THEN NoAuditResult ELSE @,
             !.listening = @ \ {id}]

CreateOrShowAgentHub ==
  /\ panels["AgentHubPanel"].current # NoPanel
       \/ panels["AgentHubPanel"].nextPanel <= MaxPanels
  /\ panels' = [panels EXCEPT !["AgentHubPanel"] = createOrShowAgentHub(@)]
  /\ UNCHANGED <<hederaVars, txVars, auditVars, locVars, deployVars, chatVars, apiVars, commandVars>>

CreateOrShowAuditDashboard ==
  \E auditResult \in AuditResults :
    /\ panels["AuditDashboardPanel"].current # NoPanel
         \/ panels["AuditDashboardPanel"].nextPanel <= MaxPanels
    /\ panels' = [panels EXCEPT !["AuditDashboardPanel"] =
                                   createOrShowAuditDashboard(@, auditResult)]
    /\ UNCHANGED <<hederaVars, txVars, auditVars, locVars, deployVars, chatVars, apiVars, commandVars>>

ShowAgentHub ==
  /\ panels["agentHubPanel"].current # NoPanel
       \/ panels["agentHubPanel"].nextPanel <= MaxPanels
  /\ panels' = [panels EXCEPT !["agentHubPanel"] = showPanel(@)]
  /\ UNCHANGED <<hederaVars, txVars, auditVars, locVars, deployVars, chatVars, apiVars, commandVars>>

ShowAuditDashboard ==
  /\ panels["auditDashboardPanel"].current # NoPanel
       \/ panels["auditDashboardPanel"].nextPanel <= MaxPanels
  /\ panels' = [panels EXCEPT !["auditDashboardPanel"] = showPanel(@)]
  /\ UNCHANGED <<hederaVars, txVars, auditVars, locVars, deployVars, chatVars, apiVars, commandVars>>

ClosePanel ==
  \E h \in PanelHolders :
    \E id \in panels[h].live :
      /\ panels' = [panels EXCEPT ![h] = onDidDispose(@, id)]
      /\ UNCHANGED <<hederaVars, txVars, auditVars, locVars, deployVars, chatVars, apiVars, commandVars>>

PanelNext ==
  \/ CreateOrShowAgentHub
  \/ CreateOrShowAuditDashboard
  \/ ShowAgentHub
  \/ ShowAuditDashboard
  \/ ClosePanel

(***************************************************************************)
(* ApiService (src/unnamed/part_001): every request goes through one axios *)
(* client whose response interceptor turns a failure into the rejection    *)
(* value.  A JavaScript value is [type, text]; what the server puts in a   *)
(* body is the server's choice.                                            *)
(***************************************************************************)
Undefined == [type |-> "undefined", text |-> ""]

Str(s) == [type |-> "string", text |-> s]

\* a JSON array, as the `detail` of a validation error is
Arr(s) == [type |-> "array", text |-> s]

\* JavaScript truthiness of a value
IsTruthy(v) ==
  CASE v.type = "undefined" -> FALSE
    [] v.type = "string" -> v.text # ""
    [] v.type = "array" -> TRUE

\* the methods of ApiService
ApiMethods ==
  {"generateCode", "analyzeCode", "compileContract", "deployContract",
   "auditContract", "generateTests", "collaborateOnContract", "checkHealth",
   "chatCompletion", "queryDocumentation", "queryRegistry"}

\* the `detail` of an error body
Details ==
  {Undefined, Str(""), Str("Compilation failed"), Arr("[{loc, msg, type}]")}

\* the errors axios hands to the interceptor: a transport failure has no
\* response, a 4xx/5xx answer has one
AxiosErrors ==
  {[response |-> FALSE, detail |-> Undefined, message |-> Str(m)] :
     m \in {"Network Error", ""}}
    \cup {[response |-> TRUE, detail |-> d, message |-> Str(m)] :
            d \in Details, m \in {"Request failed with status code 500", ""}}

\* the request did not fail
NoError == [response |-> FALSE, detail |-> Undefined, message |-> Undefined]

\* the response interceptor's error handler:
\* error?.response?.data?.detail || error.message || 'Unknown error'
rejectionValue(error) ==
  IF IsTruthy(error.detail) THEN error.detail
  ELSE IF IsTruthy(error.message) THEN error.message
  ELSE Str("Unknown error")

\* the bodies of a 200 answer to GET /health
HealthBodies == {"healthy", "degraded", "undefined"}

\* a method other than checkHealth: the rejection passes through (the
\* try/catch of the chat methods rethrows it)
request(method, error) ==
  [method |-> method, failed |-> TRUE, error |-> error, rejected |-> TRUE,
   value |-> rejectionValue(error)]

\* checkHealth: any failure is caught and answered with false
checkHealth(failed, error, body) ==
  [method |-> "checkHealth", failed |-> failed, error |-> error,
   rejected |-> FALSE,
   value |-> Str(IF ~failed /\ body = "healthy" THEN "true" ELSE "false")]

NoRequest ==
  [method |-> "none", failed |-> FALSE, error |-> NoError, rejected |-> FALSE,
   value |-> Undefined]

ApiInit == apiLast = NoRequest

\* a request that fails
RequestFails ==
  \E method \in ApiMethods \ {"checkHealth"}, error \in AxiosErrors :
    /\ apiLast' = request(method, error)
    /\ UNCHANGED <<hederaVars, txVars, auditVars, locVars, deployVars, chatVars, panelVars, commandVars>>

\* a request that is answered: response.data goes to the caller
RequestSucceeds ==
  \E method \in ApiMethods \ {"checkHealth"} :
    /\ apiLast' = [method |-> method, failed |-> FALSE, error |-> NoError,
                   rejected |-> FALSE, value |-> Str("response.data")]
    /\ UNCHANGED <<hederaVars, txVars, auditVars, locVars, deployVars, chatVars, panelVars, commandVars>>

CheckHealth ==
  \E failed \in BOOLEAN, error \in AxiosErrors, body \in HealthBodies :
    /\ apiLast' = checkHealth(failed, IF failed THEN error ELSE NoError, body)
    /\ UNCHANGED <<hederaVars, txVars, auditVars, locVars, deployVars, chatVars, panelVars, commandVars>>

ApiNext ==
  \/ RequestFails
  \/ RequestSucceeds
  \/ CheckHealth

(***************************************************************************)
(* Command handlers and the remote calls they make.  A handler is an async *)
(* function: it issues a call, waits, and goes on when the call settles.   *)
(***************************************************************************)

\* the handlers that call the backend or the blockchain wrapper
Commands ==
  {"extension.auditContract", "auditDocument", "auditSolidityContract",
   "extension.generateTests", "generateContractTests",
   "extension.deployContract", "deployContract",
   "DeploymentUtils.deployContract", "chat.general", "chat.docs"}

AuditCommands ==
  {"extension.auditContract", "auditDocument", "auditSolidityContract"}

\* the remote calls a handler makes, in the order its code awaits them
RemoteCalls(command) ==
  CASE command \in AuditCommands -> <<"POST /api/v1/audit">>
    [] command \in {"extension.generateTests", "generateContractTests"}
         -> <<"POST /api/v1/analyze">>
    [] command \in {"extension.deployContract", "deployContract"}
         -> <<"POST /api/v1/deploy">>
    [] command = "DeploymentUtils.deployContract"
         -> <<"POST /api/v1/compile", "hederaService.deployContract",
              "hederaService.registerContract">>
    [] command = "chat.general" -> <<"POST /api/v1/chat">>
    [] command = "chat.docs" -> <<"POST /api/v1/docs">>

Call(endpoint) == [endpoint |-> endpoint, outcome |-> "pending"]

\* a handler is invoked: it runs up to its first await
invoke(command) ==
  [command |-> command, pc |-> "awaiting",
   calls |-> <<Call(RemoteCalls(command)[1])>>,
   errorShown |-> FALSE, rethrown |-> FALSE]

\* (mutant of catchRethrows: every catch block throws the error on)
catchRethrows_always(command) == TRUE

\* the catch block of a handler ends with `throw error`: only that of
\* DeploymentUtils.deployContract does
catchRethrows(command) == command = "DeploymentUtils.deployContract"

\* (mutant of callFails: the handler issues the failed call once more)
callFails_retries(inv) ==
  [inv EXCEPT !.calls = Append([@ EXCEPT ![Len(@)].outcome = "failed"],
                               Call(inv.calls[Len(inv.calls)].endpoint))]

\* the call a handler waits for rejects: its catch block shows the error
\* (the chat handler as an error entry of the chat); only DeploymentUtils
\* rethrows
callFails(inv) ==
  [inv EXCEPT !.calls[Len(inv.calls)].outcome = "failed",
              !.pc = "done",
              !.errorShown = TRUE,
              !.rethrown = catchRethrows(inv.command)]

\* the call a handler waits for resolves: the next call, or the end
callSucceeds(inv) ==
  LET n == Len(inv.calls)
      settled == [inv EXCEPT !.calls[n].outcome = "ok"]
  IN IF n < Len(RemoteCalls(inv.command))
     THEN [settled EXCEPT !.calls = Append(@, Call(RemoteCalls(inv.command)[n + 1]))]
     ELSE [settled EXCEPT !.pc = "done"]

CommandInit ==
  /\ invocations = <<>>
  /\ solVulnerabilities = <<>>

InvokeCommand ==
  \E command \in Commands :
    /\ Len(invocations) < MaxInvocations
    /\ invocations' = Append(invocations, invoke(command))
    /\ UNCHANGED <<hederaVars, txVars, auditVars, locVars, deployVars, chatVars, handlerVars,
                   panelVars, apiVars, solVulnerabilities>>

CallFails ==
  \E i \in 1..Len(invocations) :
    /\ invocations[i].pc = "awaiting"
    /\ invocations' = [invocations EXCEPT ![i] = callFails(@)]
    /\ UNCHANGED <<hederaVars, txVars, auditVars, locVars, deployVars, chatVars, handlerVars,
                   panelVars, apiVars, solVulnerabilities>>

\* a call of a handler that is no audit resolves
CallSucceeds ==
  \E i \in 1..Len(invocations) :
    /\ invocations[i].pc = "awaiting"
    /\ invocations[i].command \notin AuditCommands
    /\ invocations' = [invocations EXCEPT ![i] = callSucceeds(@)]
    /\ UNCHANGED <<hederaVars, txVars, auditVars, locVars, deployVars, chatVars, handlerVars,
                   panelVars, apiVars, solVulnerabilities>>

\* 'hivemind.auditContract' of extension.ts gets its result: the dashboard
\* command, then updateDiagnostics; an exception of updateDiagnostics lands
\* in the same catch block as a failed call
ExtensionAuditResolves ==
  \E i \in 1..Len(invocations), result \in AuditResults :
    LET vulns == staticAnalysis(result) IN
    /\ invocations[i].pc = "awaiting"
    /\ invocations[i].command = "extension.auditContract"
    /\ invocations' =
         [invocations EXCEPT ![i] =
            [callSucceeds(@) EXCEPT !.errorShown = updateDiagnosticsThrows(vulns)]]
    /\ panels' = [panels EXCEPT !["AuditDashboardPanel"] =
                                   createOrShowAuditDashboard(@, result)]
    /\ solDiagnostics' = publishedDiagnostics(vulns)
    /\ locLast' = [handler |-> "updateDiagnostics", vulns |-> vulns,
                   filePath |-> "a.sol"]
                    @@ [NoEffect EXCEPT !.error = updateDiagnosticsThrows(vulns)]
    /\ UNCHANGED <<hederaVars, txVars, auditVars, deployVars, chatVars, handlerVars, apiVars,
                   solVulnerabilities>>

\* SolidityAuditProvider.auditDocument gets its result: updateDiagnostics
AuditDocumentResolves ==
  \E i \in 1..Len(invocations), result \in AuditResults :
    LET vulns == staticAnalysis(result) IN
    /\ invocations[i].pc = "awaiting"
    /\ invocations[i].command = "auditDocument"
    /\ invocations' =
         [invocations EXCEPT ![i] =
            [callSucceeds(@) EXCEPT !.errorShown = updateDiagnosticsThrows(vulns)]]
    /\ solDiagnostics' = publishedDiagnostics(vulns)
    /\ locLast' = [handler |-> "updateDiagnostics", vulns |-> vulns,
                   filePath |-> "a.sol"]
                    @@ [NoEffect EXCEPT !.error = updateDiagnosticsThrows(vulns)]
    /\ UNCHANGED <<hederaVars, txVars, auditVars, deployVars, chatVars, handlerVars, panelVars, apiVars,
                   solVulnerabilities>>

\* auditSolidityContract of part_003 gets its result through
\* SolidityAuditProvider.auditContract, which stores static_analysis
AuditSolidityContractResolves ==
  \E i \in 1..Len(invocations), result \in AuditResults :
    /\ invocations[i].pc = "awaiting"
    /\ invocations[i].command = "auditSolidityContract"
    /\ invocations' = [invocations EXCEPT ![i] = callSucceeds(@)]
    /\ solVulnerabilities' = staticAnalysis(result)
    /\ UNCHANGED <<hederaVars, txVars, auditVars, locVars, deployVars, chatVars, handlerVars,
                   panelVars, apiVars>>

CommandNext ==
  \/ InvokeCommand
  \/ CallFails
  \/ CallSucceeds
  \/ ExtensionAuditResolves
  \/ AuditDocumentResolves
  \/ AuditSolidityContractResolves

(***************************************************************************)
(* MockApiService (src/unnamed/part_001).  Strings are sequences of        *)
(* characters here, so that "contains" is computed.                        *)
(***************************************************************************)
MaxMessageLen == 2

MockInvocations == {1, 2}

MessageChars == {"a", "\""}

\* the strings given as message or query, the empty one included
Messages ==
  UNION {[1..n -> MessageChars] : n \in 0..MaxMessageLen}

ChatPrefix ==
  <<"T", "h", "i", "s", " ", "i", "s", " ", "a", " ", "m", "o", "c", "k",
    " ", "r", "e", "s", "p", "o", "n", "s", "e", " ", "t", "o", ":", " ",
    "\"">>

DocsPrefix ==
  <<"D", "o", "c", "u", "m", "e", "n", "t", "a", "t", "i", "o", "n", " ",
    "a", "n", "s", "w", "e", "r", " ", "f", "o", "r", ":", " ", "\"">>

Quote == <<"\"">>

MockSource == [title |-> "Mock Documentation", url |-> "https://docs.example.com/mock"]

HederaSources ==
  <<[title |-> "Hedera Documentation", url |-> "https://docs.hedera.com"],
    [title |-> "Smart Contract Guide",
     url |-> "https://docs.hedera.com/guides/smart-contracts"]>>

\* (mutant of mockChatCompletion: the answer leaves the message out)
mockChatCompletion_withoutMessage(message) ==
  [message |-> ChatPrefix \o Quote, sources |-> <<MockSource>>]

\* what chatCompletion(message) returns once its timer has fired
mockChatCompletion(message) ==
  [message |-> ChatPrefix \o message \o Quote, sources |-> <<MockSource>>]

\* what queryDocumentation(query) returns once its timer has fired
mockQueryDocumentation(query) ==
  [message |-> DocsPrefix \o query \o Quote, sources |-> HederaSources]

NoResponse == [message |-> <<>>, sources |-> <<>>]

MockIdle == [pc |-> "idle", method |-> "none", arg |-> <<>>, response |-> NoResponse]

MockInit == mockCalls = [c \in MockInvocations |-> MockIdle]

\* chatCompletion / queryDocumentation up to the await: the timer is set
MockCall ==
  \E c \in MockInvocations, method \in {"chatCompletion", "queryDocumentation"},
     m \in Messages :
    /\ mockCalls[c].pc = "idle"
    /\ mockCalls' = [mockCalls EXCEPT ![c] =
                       [@ EXCEPT !.pc = "waiting", !.method = method, !.arg = m]]
    /\ UNCHANGED <<chatInput, chatLast, chatMessages, chatRequests,
                   typingIndicator, chatView>>
    /\ UNCHANGED <<hederaVars, txVars, auditVars, locVars, deployVars,
                   panelVars, apiVars, commandVars>>

\* the timer fires: the promise resolves with the response
MockTimerFires ==
  \E c \in MockInvocations :
    /\ mockCalls[c].pc = "waiting"
    /\ mockCalls' = [mockCalls EXCEPT ![c] =
                       [@ EXCEPT !.pc = "resolved",
                                 !.response =
                                    IF mockCalls[c].method = "chatCompletion"
                                    THEN mockChatCompletion(mockCalls[c].arg)
                                    ELSE mockQueryDocumentation(mockCalls[c].arg)]]
    /\ UNCHANGED <<chatInput, chatLast, chatMessages, chatRequests,
                   typingIndicator, chatView>>
    /\ UNCHANGED <<hederaVars, txVars, auditVars, locVars, deployVars,
                   panelVars, apiVars, commandVars>>

MockNext ==
  \/ MockCall
  \/ MockTimerFires

(***************************************************************************)
(* The chat view: webview/chat.js and ChatViewProvider                     *)
(* (src/hivemind-frontend/src/components/chatViewProvider.ts).  A message  *)
(* posted by the webview is handled by the provider in the same step.      *)
(***************************************************************************)
MaxChatInputLen == 2

\* the runs of _handleChatMessage that are followed
ChatRuns == {1, 2}

ChatChars == {" ", "h"}

\* what the user can have typed into the input field
ChatInputs ==
  UNION {[1..n -> ChatChars] : n \in 0..MaxChatInputLen}

QueryModes == {"general", "docs"}

IsWhiteSpace(c) == c \in {" ", "\n", "\t"}

RECURSIVE trimStart(_)
trimStart(s) ==
  IF s = <<>> THEN s
  ELSE IF IsWhiteSpace(Head(s)) THEN trimStart(Tail(s)) ELSE s

RECURSIVE trimEnd(_)
trimEnd(s) ==
  IF s = <<>> THEN s
  ELSE IF IsWhiteSpace(s[Len(s)]) THEN trimEnd(SubSeq(s, 1, Len(s) - 1)) ELSE s

\* (mutant of trim: the input is sent as typed)
trim_keepsWhiteSpace(s) == s

\* String.prototype.trim()
trim(s) == trimEnd(trimStart(s))

\* the answers of the chat endpoints: with a message, or without one
ChatResponses == {"answer", "undefined"}

\* what a failed call rejects with: an Error object (a TypeError raised
\* while the answer is read), or the string the ApiService interceptor
\* rejects with
ChatErrors ==
  {[instanceofError |-> TRUE, text |-> "Cannot read properties of undefined"],
   [instanceofError |-> FALSE, text |-> "Request failed with status code 500"]}

UserMessage(message) == [role |-> "user", content |-> message, isError |-> FALSE]

AssistantMessage(response) ==
  [role |-> "assistant",
   content |-> IF response = "undefined"
               THEN <<"Sorry, I couldn't process your request.">>
               ELSE <<response>>,
   isError |-> FALSE]

\* `Error: ${error instanceof Error ? error.message : 'Unknown error'}`
ErrorMessage(error) ==
  [role |-> "assistant",
   content |-> IF error.instanceofError
               THEN <<"Error: ", error.text>>
               ELSE <<"Error: ", "Unknown error">>,
   isError |-> TRUE]

\* what a run's API call settled with (history)
Pending == [kind |-> "pending", text |-> ""]

\* the API call _handleChatMessage makes for a mode
chatEndpoint(mode) ==
  IF mode = "docs" THEN "queryDocumentation" ELSE "chatCompletion"

NoSend == [input |-> <<>>, posted |-> "none"]

ChatInit ==
  /\ chatInput = <<>>
  /\ chatLast = NoSend
  /\ chatMessages = <<>>
  /\ chatRequests = <<>>
  /\ typingIndicator = "none"
  /\ chatView = <<>>

\* the user types v, picks a mode and presses Enter or clicks Send:
\* sendMessage() of chat.js and, if it posts, _handleChatMessage up to its
\* await
SendMessage ==
  \E v \in ChatInputs, mode \in QueryModes :
    /\ trim(v) # <<>> => Len(chatRequests) < Cardinality(ChatRuns)
    /\ chatLast' = [input |-> v,
                    posted |-> IF trim(v) # <<>> THEN "sendMessage" ELSE "nothing"]
    /\ chatInput' = IF trim(v) # <<>> THEN <<>> ELSE v
    /\ chatMessages' = IF trim(v) # <<>>
                       THEN Append(chatMessages,
                                   UserMessage(trim(v))
                                     @@ [run |-> Len(chatRequests) + 1])
                       ELSE chatMessages
    /\ chatView' = IF trim(v) # <<>> THEN chatMessages' ELSE chatView
    /\ typingIndicator' = IF trim(v) # <<>> THEN "true" ELSE typingIndicator
    /\ chatRequests' = IF trim(v) # <<>>
                       THEN Append(chatRequests,
                                   [endpoint |-> chatEndpoint(mode),
                                    arg |-> trim(v), pc |-> "awaiting",
                                    outcome |-> Pending])
                       ELSE chatRequests
    /\ UNCHANGED <<hederaVars, txVars, auditVars, locVars, deployVars,
                   panelVars, apiVars, commandVars, mockVars>>

\* the user clicks Clear: the provider empties _messages
ClearChat ==
  /\ chatMessages # <<>>
  /\ chatMessages' = <<>>
  /\ chatView' = chatMessages'
  /\ UNCHANGED <<chatInput, chatLast, chatRequests, typingIndicator>>
  /\ UNCHANGED <<hederaVars, txVars, auditVars, locVars, deployVars,
                 panelVars, apiVars, commandVars, mockVars>>

\* the API call of run r resolves: the indicator is hidden, the answer added
ChatResolves ==
  \E r \in ChatRuns, response \in ChatResponses :
    /\ r <= Len(chatRequests)
    /\ chatRequests[r].pc = "awaiting"
    /\ chatRequests' = [chatRequests EXCEPT
                           ![r].pc = "answered",
                           ![r].outcome = [kind |-> "response", text |-> response]]
    /\ typingIndicator' = "false"
    /\ chatMessages' = Append(chatMessages,
                              AssistantMessage(response) @@ [run |-> r])
    /\ chatView' = chatMessages'
    /\ UNCHANGED <<chatInput, chatLast>>
    /\ UNCHANGED <<hederaVars, txVars, auditVars, locVars, deployVars,
                   panelVars, apiVars, commandVars, mockVars>>

\* the API call of run r rejects: the catch block hides the indicator and
\* adds an error entry
ChatRejects ==
  \E r \in ChatRuns, error \in ChatErrors :
    /\ r <= Len(chatRequests)
    /\ chatRequests[r].pc = "awaiting"
    /\ chatRequests' = [chatRequests EXCEPT
                           ![r].pc = "failed",
                           ![r].outcome = [kind |-> "error", text |-> error.text]]
    /\ typingIndicator' = "false"
    /\ chatMessages' = Append(chatMessages, ErrorMessage(error) @@ [run |-> r])
    /\ chatView' = chatMessages'
    /\ UNCHANGED <<chatInput, chatLast>>
    /\ UNCHANGED <<hederaVars, txVars, auditVars, locVars, deployVars,
                   panelVars, apiVars, commandVars, mockVars>>

ChatNext ==
  \/ SendMessage
  \/ ClearChat
  \/ ChatResolves
  \/ ChatRejects

(***************************************************************************)
(* The 'hivemind.deployContract' command of extension.ts, step by step     *)
(***************************************************************************)
DeployCommandRuns == {1, 2}

\* vscode.window.activeTextEditor: none, or the languageId of its document
ActiveEditors == {"none", "solidity", "plaintext"}

\* what a notification with buttons resolves to ("undefined": dismissed)
ConnectAnswers == {"Connect", "Cancel", "undefined"}

ConfirmAnswers == {"Deploy", "Cancel", "undefined"}

NotRun ==
  [pc |-> "idle", editor |-> "none", sawConnected |-> FALSE, answer |-> "none",
   requests |-> 0, connectRequested |-> FALSE, shown |-> "none"]

\* the handler up to its first await, or to its end
startDeployCommand(run, editor, isConn) ==
  IF editor # "solidity"
  THEN [run EXCEPT !.pc = "done", !.editor = editor,
                   !.shown = "Please open a Solidity file to deploy."]
  ELSE IF ~isConn
  THEN [run EXCEPT !.pc = "askConnect", !.editor = editor]
  ELSE [run EXCEPT !.pc = "confirm", !.editor = editor, !.sawConnected = TRUE]

\* the 'You need to connect' notification is answered
afterConnectPrompt(run, answer) ==
  [run EXCEPT !.pc = "done", !.answer = answer,
              !.connectRequested = (answer = "Connect")]

\* (mutant of afterConfirm: only 'Cancel' stops the deployment)
afterConfirm_unlessCancel(run, answer) ==
  IF answer = "Cancel"
  THEN [run EXCEPT !.pc = "done", !.answer = answer]
  ELSE [run EXCEPT !.pc = "deploying", !.answer = answer, !.requests = @ + 1]

\* the modal 'Deploy to <network>?' is answered
afterConfirm(run, answer) ==
  IF answer # "Deploy"
  THEN [run EXCEPT !.pc = "done", !.answer = answer]
  ELSE [run EXCEPT !.pc = "deploying", !.answer = answer, !.requests = @ + 1]

\* apiService.deployContract settles
afterDeployRequest(run, ok) ==
  [run EXCEPT !.pc = "done",
              !.shown = IF ok THEN "Contract deployed successfully!"
                        ELSE "Deployment failed"]

notDeployCommandVars ==
  <<hederaVars, txVars, auditVars, locVars, deployVars, panelVars, apiVars,
    chatVars, invocations, solVulnerabilities, groupedVars,
    htmlVars,
    solAuditVars,
    panelHandlerVars,
    activationVars>>

DeployCommandInit == deployCommands = [r \in DeployCommandRuns |-> NotRun]

StartDeployCommand ==
  \E r \in DeployCommandRuns, editor \in ActiveEditors :
    /\ deployCommands[r].pc = "idle"
    /\ deployCommands' = [deployCommands EXCEPT ![r] =
                            startDeployCommand(@, editor, isConnected(Service))]
    /\ UNCHANGED notDeployCommandVars

ConnectPromptAnswered ==
  \E r \in DeployCommandRuns, answer \in ConnectAnswers :
    /\ deployCommands[r].pc = "askConnect"
    /\ deployCommands' = [deployCommands EXCEPT ![r] = afterConnectPrompt(@, answer)]
    /\ UNCHANGED notDeployCommandVars

ConfirmAnswered ==
  \E r \in DeployCommandRuns, answer \in ConfirmAnswers :
    /\ deployCommands[r].pc = "confirm"
    /\ deployCommands' = [deployCommands EXCEPT ![r] = afterConfirm(@, answer)]
    /\ UNCHANGED notDeployCommandVars

DeployRequestSettles ==
  \E r \in DeployCommandRuns, ok \in BOOLEAN :
    /\ deployCommands[r].pc = "deploying"
    /\ deployCommands' = [deployCommands EXCEPT ![r] = afterDeployRequest(@, ok)]
    /\ UNCHANGED notDeployCommandVars

DeployCommandNext ==
  \/ StartDeployCommand
  \/ ConnectPromptAnswered
  \/ ConfirmAnswered
  \/ DeployRequestSettles
  \/ ConnectHederaCommand
  \/ DisconnectHederaCommand

(***************************************************************************)
(* TransactionCenterProvider, the grouped view                             *)
(* (src/hivemind-frontend/src/views/TransactionCenter.ts).  A type name is *)
(* a sequence of words and separators, so that replace() and toLowerCase() *)
(* are computed.                                                           *)
(***************************************************************************)
\* the four type names getChildren groups by
GroupTypes ==
  <<<<"Contract", " ", "Deployment">>, <<"Contract", " ", "Call">>,
    <<"Topic", " ", "Creation">>, <<"Topic", " ", "Message">>>>

\* the type fields of the records handed to addTransaction: display names,
\* one in lower case, and the constant DeploymentUtils uses
AddedTypes ==
  {<<"Contract", " ", "Deployment">>, <<"contract", " ", "call">>,
   <<"CONTRACT_DEPLOY">>}

\* String.prototype.toLowerCase on a type name
lowerCase(s) == [i \in 1..Len(s) |-> ToLowerCase(s[i])]

\* String.prototype.replace(a, b) with a string pattern: the first
\* occurrence only
RECURSIVE replaceFirst(_, _, _)
replaceFirst(s, a, b) ==
  IF s = <<>> THEN s
  ELSE IF Head(s) = a THEN b \o Tail(s)
  ELSE <<Head(s)>> \o replaceFirst(Tail(s), a, b)

\* the transactions of a list that pass a test on the type
ofType(txs, type, caseSensitive) ==
  LET Same(tx) == IF caseSensitive THEN tx.type = type
                  ELSE lowerCase(tx.type) = lowerCase(type)
  IN SelectSeq(txs, Same)

NoElement == [defined |-> FALSE, contextValue |-> <<>>]

GroupItem(type, n) ==
  [defined |-> TRUE, label |-> type, count |-> n, id |-> "",
   contextValue |-> <<"type-">> \o replaceFirst(lowerCase(type), " ", <<"-">>)]

LeafItem(label, id, contextValue) ==
  [defined |-> TRUE, label |-> <<label>>, count |-> 0, id |-> id,
   contextValue |-> contextValue]

\* getChildren(element)
groupedGetChildren(txs, isConn, element) ==
  IF ~isConn
  THEN <<LeafItem("Not Connected to Hedera", "", <<>>)>>
  ELSE IF txs = <<>>
  THEN <<LeafItem("No Transactions", "", <<>>)>>
  ELSE IF ~element.defined
  THEN LET Present(type) == ofType(txs, type, TRUE) # <<>>
           types == SelectSeq(GroupTypes, Present)
       IN [i \in 1..Len(types) |->
             GroupItem(types[i], Len(ofType(txs, types[i], TRUE)))]
  ELSE IF element.contextValue # <<>> /\ Head(element.contextValue) = "type-"
  THEN LET type == replaceFirst(replaceFirst(element.contextValue, "type-", <<>>),
                                "-", <<" ">>)
           found == ofType(txs, type, FALSE)
       IN [i \in 1..Len(found) |->
             LeafItem(found[i].id, found[i].id, <<"transaction">>)]
  ELSE <<>>

\* _onDidChangeTreeData.fire(): the host drops the tree it drew
NotDrawn == [drawn |-> FALSE, connected |-> FALSE, element |-> NoElement,
             items |-> <<>>]

notGroupedVars ==
  <<hederaVars, txVars, auditVars, locVars, deployVars, panelVars, apiVars,
    chatVars, invocations, solVulnerabilities, deployCommandVars,
    htmlVars,
    solAuditVars,
    panelHandlerVars,
    activationVars>>

GroupedInit ==
  grouped = [transactions |-> <<>>, root |-> NotDrawn, children |-> NotDrawn]

\* addTransaction(transaction): unshift, then refresh() fires the event
GroupedAddTransaction ==
  \E type \in AddedTypes :
    /\ Len(grouped.transactions) < MaxTx
    /\ grouped' =
         [transactions |->
            unshift(grouped.transactions,
                    [id |-> "tx-" \o ToString(Len(grouped.transactions) + 1),
                     type |-> type, status |-> "SUCCESS"]),
          root |-> NotDrawn, children |-> NotDrawn]
    /\ UNCHANGED notGroupedVars

\* refresh(newTransactions) with one new transaction, or with none
GroupedRefresh ==
  \E news \in {<<>>} \cup {<<[id |-> "new-" \o ToString(Len(grouped.transactions) + 1),
                              type |-> type, status |-> "PENDING"]>> :
                            type \in AddedTypes} :
    /\ Len(grouped.transactions) + Len(news) <= MaxTx
    /\ grouped' = [transactions |-> news \o grouped.transactions,
                   root |-> NotDrawn, children |-> NotDrawn]
    /\ UNCHANGED notGroupedVars

\* the host asks for the root of the tree
GroupedGetRoot ==
  /\ grouped' = [grouped EXCEPT
                   !.root = [drawn |-> TRUE, connected |-> isConnected(Service),
                             element |-> NoElement,
                             items |-> groupedGetChildren(grouped.transactions,
                                                          isConnected(Service),
                                                          NoElement)],
                   !.children = NotDrawn]
  /\ UNCHANGED notGroupedVars

\* the user expands an item of the root the host drew
GroupedExpand ==
  \E i \in 1..MaxTx + 1 :
    /\ grouped.root.drawn
    /\ i <= Len(grouped.root.items)
    /\ grouped' = [grouped EXCEPT
                     !.children =
                        [drawn |-> TRUE, connected |-> isConnected(Service),
                         element |-> grouped.root.items[i],
                         items |-> groupedGetChildren(grouped.transactions,
                                                      isConnected(Service),
                                                      grouped.root.items[i])]]
    /\ UNCHANGED notGroupedVars

GroupedNext ==
  \/ GroupedAddTransaction
  \/ GroupedRefresh
  \/ GroupedGetRoot
  \/ GroupedExpand
  \/ ConnectHederaCommand
  \/ DisconnectHederaCommand

(***************************************************************************)
(* The summary cards of the Audit Dashboard panel                          *)
(* (AuditDashboardPanel._getHtmlForWebview, src/unnamed/part_008)          *)
(***************************************************************************)
\* the severity fields of the findings of an audit result
FindingSeverities ==
  {"Critical", "critical", "High", "HIGH", "Medium", "medium", "Low", "LOW",
   "Informational", "informational", "Info", "Unknown"}

SeverityLists ==
  UNION {[1..n -> FindingSeverities] : n \in 0..MaxFindings}

\* the keys of severityCounts, one per summary card
SummaryCards == {"critical", "high", "medium", "low", "info"}

\* severityCounts after the forEach over static_analysis
severityCounts(sevs) ==
  [card \in SummaryCards |->
     Cardinality({i \in 1..Len(sevs) : ToLowerCase(sevs[i]) = card})]

notHtmlVars ==
  <<hederaVars, txVars, auditVars, locVars, deployVars, panelVars, apiVars,
    chatVars, invocations, solVulnerabilities,
    deployCommandVars, groupedVars,
    solAuditVars,
    panelHandlerVars,
    activationVars>>

HtmlInit ==
  dashboardHtml = [rendered |-> FALSE, severities |-> <<>>,
                   counts |-> severityCounts(<<>>)]

\* _getHtmlForWebview for an audit result whose findings have these
\* severities
RenderSummary ==
  \E sevs \in SeverityLists :
    /\ dashboardHtml' = [rendered |-> TRUE, severities |-> sevs,
                         counts |-> severityCounts(sevs)]
    /\ UNCHANGED notHtmlVars

HtmlNext ==
  \/ RenderSummary

(***************************************************************************)
(* SolidityAuditProvider.auditContract and the active editor               *)
(* (src/unnamed/part_001, auditSolidityContract of src/unnamed/part_003)   *)
(***************************************************************************)
SolAuditRuns == {1, 2}

SolDocuments == {"a.sol", "b.sol"}

\* vscode.window.activeTextEditor: none, or the editor of a document
Editors == SolDocuments \cup {"none"}

\* the keys of this.vulnerabilities
documentUri(editor) == IF editor = "none" THEN "current" ELSE editor

NotStored == [defined |-> FALSE, from |-> 0, doc |-> "none"]

NotAudited == [pc |-> "idle", doc |-> "none"]

notSolAuditVars ==
  <<hederaVars, txVars, auditVars, locVars, deployVars, panelVars, apiVars,
    chatVars, invocations, solVulnerabilities,
    deployCommandVars, groupedVars, htmlVars,
    panelHandlerVars,
    activationVars>>

SolAuditInit ==
  solAudit = [editor |-> "none",
              audits |-> [i \in SolAuditRuns |-> NotAudited],
              stored |-> [u \in SolDocuments \cup {"current"} |-> NotStored]]

\* the user opens or changes to another editor, or closes the last one
ChangeActiveEditor ==
  \E editor \in Editors :
    /\ editor # solAudit.editor
    /\ solAudit' = [solAudit EXCEPT !.editor = editor]
    /\ UNCHANGED notSolAuditVars

\* auditSolidityContract: the text of the active Solidity document is
\* submitted; auditContract waits for the answer.  Runs are numbered in
\* the order of their requests.
StartSolAudit ==
  \E i \in SolAuditRuns :
    /\ solAudit.editor # "none"
    /\ solAudit.audits[i].pc = "idle"
    /\ \A j \in SolAuditRuns : j < i => solAudit.audits[j].pc # "idle"
    /\ solAudit' = [solAudit EXCEPT
                      !.audits[i] = [pc |-> "awaiting", doc |-> solAudit.editor]]
    /\ UNCHANGED notSolAuditVars

\* the answer arrives: the list is stored under the URI of the editor that
\* is active now
SolAuditResolves ==
  \E i \in SolAuditRuns :
    /\ solAudit.audits[i].pc = "awaiting"
    /\ solAudit' = [solAudit EXCEPT
                      !.audits[i].pc = "stored",
                      !.stored[documentUri(solAudit.editor)] =
                         [defined |-> TRUE, from |-> i,
                          doc |-> solAudit.audits[i].doc]]
    /\ UNCHANGED notSolAuditVars

\* the call fails: auditContract rethrows and stores nothing
SolAuditRejects ==
  \E i \in SolAuditRuns :
    /\ solAudit.audits[i].pc = "awaiting"
    /\ solAudit' = [solAudit EXCEPT !.audits[i].pc = "failed"]
    /\ UNCHANGED notSolAuditVars

SolAuditNext ==
  \/ ChangeActiveEditor
  \/ StartSolAudit
  \/ SolAuditResolves
  \/ SolAuditRejects

(***************************************************************************)
(* The message handlers of AgentHubPanel (src/unnamed/part_005) and        *)
(* AuditDashboardPanel (src/unnamed/part_008), and dispose()               *)
(***************************************************************************)
PanelClasses == {"AgentHubPanel", "AuditDashboardPanel"}

\* the handler runs followed per panel
HandlerRuns == {1}

\* message.command of the messages the two webviews send
PanelCommands(class) ==
  IF class = "AgentHubPanel"
  THEN {"generateCode", "analyzeCode", "deployContract", "getAgents",
        "getConnectionStatus"}
  ELSE {"fixVulnerability", "applyFix", "ignoreVulnerability"}

NoHandlerRun == [pc |-> "idle", command |-> "none", posted |-> "nothing"]

\* the class before createOrShow
NoPanelObject ==
  [panel |-> "none", currentPanel |-> FALSE, disposables |-> 0,
   runs |-> [r \in HandlerRuns |-> NoHandlerRun]]

\* this._panel.webview.postMessage(...): the handler does not look whether
\* the panel is still there
postMessage(po, run) ==
  [run EXCEPT !.pc = "done",
              !.posted = IF po.panel = "disposed" THEN "disposed" ELSE "live"]

\* the handler up to its first await: the not-connected and no-editor
\* branches and the commands without a call answer at once
receiveMessage(po, command, isConn, hasEditor) ==
  LET run == [NoHandlerRun EXCEPT !.command = command]
  IN CASE command \in {"generateCode", "analyzeCode", "deployContract"} ->
            [run EXCEPT !.pc = "awaiting"]
       [] command = "getAgents" ->
            IF ~isConn THEN postMessage(po, run)
            ELSE [run EXCEPT !.pc = "awaiting"]
       [] command \in {"fixVulnerability", "applyFix"} ->
            IF ~hasEditor THEN postMessage(po, run)
            ELSE [run EXCEPT !.pc = "awaiting"]
       [] OTHER -> postMessage(po, run)

\* dispose(): currentPanel = undefined, this._panel.dispose(), and the
\* disposables are popped until none is left
dispose(po) ==
  [po EXCEPT !.currentPanel = FALSE, !.panel = "disposed", !.disposables = 0]

notPanelHandlerVars ==
  <<hederaVars, txVars, auditVars, locVars, deployVars, panelVars, apiVars,
    chatVars, invocations, solVulnerabilities,
    deployCommandVars, groupedVars, htmlVars, solAuditVars,
    activationVars>>

PanelHandlerInit == panelHandlers = [c \in PanelClasses |-> NoPanelObject]

\* createOrShow with no current panel: the constructor registers
\* onDidDispose and onDidReceiveMessage in _disposables
CreatePanelObject ==
  \E c \in PanelClasses :
    /\ panelHandlers[c].panel = "none"
    /\ panelHandlers' = [panelHandlers EXCEPT
                           ![c] = [@ EXCEPT !.panel = "open",
                                            !.currentPanel = TRUE,
                                            !.disposables = 2]]
    /\ UNCHANGED notPanelHandlerVars

\* the webview of an open panel sends a message
ReceiveMessage ==
  \E c \in PanelClasses, r \in HandlerRuns, hasEditor \in BOOLEAN :
    \E command \in PanelCommands(c) :
      /\ panelHandlers[c].panel = "open"
      /\ panelHandlers[c].runs[r].pc = "idle"
      /\ panelHandlers' = [panelHandlers EXCEPT
                             ![c].runs[r] =
                                receiveMessage(panelHandlers[c], command,
                                               isConnected(Service), hasEditor)]
      /\ UNCHANGED notPanelHandlerVars

\* the awaited call resolves or rejects: the try block posts the result,
\* the catch block posts the error
HandlerSettles ==
  \E c \in PanelClasses, r \in HandlerRuns, ok \in BOOLEAN :
    /\ panelHandlers[c].runs[r].pc = "awaiting"
    /\ panelHandlers' = [panelHandlers EXCEPT
                           ![c].runs[r] = postMessage(panelHandlers[c], @)]
    /\ UNCHANGED notPanelHandlerVars

\* the user closes the panel: the host disposes it and fires onDidDispose,
\* whose listener is dispose()
DisposePanelObject ==
  \E c \in PanelClasses :
    /\ panelHandlers[c].panel = "open"
    /\ panelHandlers' = [panelHandlers EXCEPT ![c] = dispose(@)]
    /\ UNCHANGED notPanelHandlerVars

PanelHandlerNext ==
  \/ CreatePanelObject
  \/ ReceiveMessage
  \/ HandlerSettles
  \/ DisposePanelObject
  \/ ConnectHederaCommand
  \/ DisconnectHederaCommand

(***************************************************************************)
(* activate() of src/unnamed/part_003: the registerCommand calls of the    *)
(* providers' and status bars' constructors and of registerCommands(), in  *)
(* the order in which activate() reaches them                              *)
(***************************************************************************)
\* new AgentExplorerProvider(hederaService)  (part_007:505-515)
AgentExplorerProviderCommands ==
  <<"hivemindAgentExplorer.refresh", "hivemindAgentExplorer.useAgent">>

\* new AuditDashboardProvider(apiService)  (part_006:81-101)
AuditDashboardProviderCommands ==
  <<"hivemindAuditDashboard.refresh", "hivemindAuditDashboard.showVulnerability",
    "hivemindAuditDashboard.fixVulnerability", "hivemindAuditDashboard.updateResults">>

\* new TransactionCenterProvider(hederaService)  (part_007:53-68)
TransactionCenterProviderCommands ==
  <<"hivemindTransactionCenter.refresh", "hivemindTransactionCenter.viewTransaction",
    "hivemindTransactionCenter.addTransaction">>

\* new NetworkStatusBar(context), new AgentStatusBar(context)
StatusBarCommands ==
  <<"hivemind.updateNetworkStatus", "hivemind.updateAgentStatus">>

\* registerCommands(context)  (part_003:852-978)
registerCommands ==
  <<"hivemind.showAgentHub", "hivemind.auditContract", "hivemind.generateTests",
    "hivemind.deployContract", "hivemind.showAuditDashboard", "hivemind.showChat",
    "hivemind.testChat", "hivemind.generateTests", "hivemind.deployContract",
    "hivemind.connectHedera", "hivemind.disconnectHedera",
    "hivemind.configureSettings", "hivemindAgentExplorer.refresh",
    "hivemindAuditDashboard.refresh", "hivemindTransactionCenter.refresh">>

\* the registerCommand calls of activate() in order
activate ==
  AgentExplorerProviderCommands \o AuditDashboardProviderCommands
    \o TransactionCenterProviderCommands \o StatusBarCommands \o registerCommands

CommandIds == {activate[i] : i \in DOMAIN activate}

\* the identifiers executeCommand is called with: the registered ones and
\* the refreshEntry commands the refresh handlers of registerCommands call
ExecutedIds ==
  CommandIds \cup {"hivemindAgentExplorer.refreshEntry",
                   "hivemindAuditDashboard.refreshEntry",
                   "hivemindTransactionCenter.refreshEntry"}

NotExecuted == [id |-> "none", found |-> FALSE]

\* vscode.commands.registerCommand(id, handler): an identifier that exists
\* already makes the call throw, which ends activate()
registerCommand(a, id) ==
  IF id \in a.registered
  THEN [a EXCEPT !.threw = id]
  ELSE [a EXCEPT !.registered = @ \cup {id}, !.pc = @ + 1]

notActivationVars ==
  <<hederaVars, txVars, auditVars, locVars, deployVars, panelVars, apiVars,
    chatVars, invocations, solVulnerabilities,
    deployCommandVars, groupedVars, htmlVars, solAuditVars, panelHandlerVars>>

\* the extension host before it calls activate()
ActivationInit ==
  activation = [pc |-> 1, registered |-> {}, threw |-> "none",
                executed |-> NotExecuted]

\* activate() reaches its next registerCommand call
RegisterNextCommand ==
  /\ activation.pc <= Len(activate)
  /\ activation.threw = "none"
  /\ activation' = registerCommand(activation, activate[activation.pc])
  /\ UNCHANGED notActivationVars

\* the user or a handler executes a command; it is found if registered
ExecuteCommand ==
  \E id \in ExecutedIds :
    /\ activation' = [activation EXCEPT
                        !.executed = [id |-> id,
                                      found |-> id \in activation.registered]]
    /\ UNCHANGED notActivationVars

ActivationNext ==
  \/ RegisterNextCommand
  \/ ExecuteCommand

\* the user-interface parts after activation
UiInit ==
  /\ PanelInit
  /\ ApiInit
  /\ CommandInit
  /\ MockInit
  /\ ChatInit
  /\ DeployCommandInit
  /\ GroupedInit
  /\ HtmlInit
  /\ SolAuditInit
  /\ PanelHandlerInit
  /\ ActivationInit

(***************************************************************************)
(* Specifications                                                          *)
(***************************************************************************)
Init ==
  /\ HederaInit
  /\ TxInit
  /\ AuditInit
  /\ LocInit
  /\ DeployInit
  /\ UiInit

SpecHedera == Init /\ [][HederaNext]_vars

SpecTx == Init /\ [][TxNext]_vars

\* the views that never read the Hedera session start without credentials
InitNoCredentials ==
  /\ HederaInitWith(NoStoredCredentials)
  /\ TxInit
  /\ AuditInit
  /\ LocInit
  /\ DeployInit
  /\ UiInit

SpecAudit == InitNoCredentials /\ [][AuditNext]_vars

SpecLoc == InitNoCredentials /\ [][LocNext]_vars

SpecDeploy == InitNoCredentials /\ [][DeployNext]_vars

SpecPanel == InitNoCredentials /\ [][PanelNext]_vars

SpecApi == InitNoCredentials /\ [][ApiNext]_vars

SpecCommands == InitNoCredentials /\ [][CommandNext]_vars

SpecChat == InitNoCredentials /\ [][ChatNext]_vars

SpecDeployCommand == InitNoCredentials /\ [][DeployCommandNext]_vars

SpecGrouped == InitNoCredentials /\ [][GroupedNext]_vars

SpecHtml == InitNoCredentials /\ [][HtmlNext]_vars

SpecSolAudit == InitNoCredentials /\ [][SolAuditNext]_vars

SpecPanelHandlers == InitNoCredentials /\ [][PanelHandlerNext]_vars

SpecActivation == InitNoCredentials /\ [][ActivationNext]_vars

\* a pending API call settles: the HTTP client answers or times out (30 s)
SpecChatLive == SpecChat /\ WF_vars(ChatResolves \/ ChatRejects)

SpecMock == InitNoCredentials /\ [][MockNext]_vars

\* a timer that was set fires: the event loop runs every due callback
SpecMockLive == SpecMock /\ WF_vars(MockTimerFires)

(***************************************************************************)
(* Claims about HederaService                                              *)
(***************************************************************************)

\* the SDK Client objects that were created and never closed
OpenHandles == {h \in Handles : h < nextHandle /\ closeCalls[h] = 0}

\* C1: after disconnect(), and until a connect() succeeds, every blockchain
\* operation fails with 'Not connected to Hedera' and makes no SDK call.
C1_OperationsFailAfterDisconnect ==
  (lastCall.name \in Operations /\ lastSessionCall = "disconnect")
    => (lastCall.threw = "Not connected to Hedera" /\ lastCall.sdkCalls = 0)

\* C2: a connect() that throws on the network name leaves client, connected,
\* network, accountId and privateKey as they were before the call.
C2_InvalidNetworkMutatesNothing ==
  [][(lastCall'.name = "connect" /\ lastCall'.threw = "Invalid network")
       => UNCHANGED <<client, connected, network, accountId, privateKey>>]_vars

\* C3: whenever connect() throws, the session is left Disconnected: the
\* client handle is null and isConnected() is false.
C3_ConnectFailsClosed ==
  (lastCall.name = "connect" /\ lastCall.threw # "none")
    => (client = NoClient /\ ~isConnected(Service))

\* C4: disconnect() closes the client it holds exactly once, nulls it, clears
\* connected, touches nothing else and never throws; called again in the
\* Disconnected state it changes no field and closes nothing.
C4_DisconnectReleasesIdempotent ==
  [][lastCall'.name = "disconnect"
       => /\ client' = NoClient
          /\ connected' = FALSE
          /\ lastCall'.threw = "none"
          /\ UNCHANGED <<accountId, privateKey, network, nextHandle>>
          /\ \A h \in Handles :
               closeCalls'[h] = IF h = client THEN 1 ELSE closeCalls[h]
          /\ (client = NoClient /\ ~connected)
               => UNCHANGED <<client, connected, closeCalls>>]_vars

\* C4 witness: disconnect() was called twice in a row on a session that held
\* a client, and that client was closed once.
C4_Witness ==
  /\ lastCall.name = "disconnect"
  /\ prevDisconnect
  /\ \E h \in Handles : h < nextHandle /\ closeCalls[h] = 1

\* C5: at most one SDK client is open, and it is the one the service holds:
\* no open client is ever left unreferenced.
C5_AtMostOneOpenHandle ==
  /\ Cardinality(OpenHandles) <= 1
  /\ OpenHandles \subseteq {client}

\* C19: updateConfig(accountId, privateKey, network) reconnects only if the
\* session was Connected.  Called while connected with a valid network (and
\* credentials the SDK accepts) it closes the old client and ends connected
\* with a new client, bound to the new network and credentials; called while
\* connected with an invalid network it ends not connected with a null
\* client; called while not connected it leaves the client null and the
\* session not connected, and only stores the three values.
C19_UpdateConfigReconnectsOnlyIfConnected ==
  [][lastCall'.name = "updateConfig" =>
       /\ connected /\ network' \in {"testnet", "mainnet"}
            /\ SetOperatorAccepts(accountId', privateKey')
            => /\ connected'
               /\ client' # NoClient
               /\ client' # client
               /\ closeCalls'[client] = closeCalls[client] + 1
       /\ connected /\ network' \notin {"testnet", "mainnet"}
            => ~connected' /\ client' = NoClient
       /\ ~connected
            => /\ client' = NoClient
               /\ ~connected'
               /\ UNCHANGED <<nextHandle, closeCalls>>]_vars

\* C23: in every reachable state the connected flag and the client handle
\* agree (connected is true iff the client is non-null), so isConnected()
\* is false exactly when the blockchain operations throw 'Not connected to
\* Hedera'.
C23_FlagAndHandleAgree ==
  /\ connected <=> client # NoClient
  /\ lastCall.name \in Operations
       => (lastCall.threw = "Not connected to Hedera" <=> ~isConnected(Service))

(***************************************************************************)
(* Claims about the Transaction Center                                     *)
(***************************************************************************)
RECURSIVE Reverse(_)
Reverse(s) == IF s = <<>> THEN <<>> ELSE Append(Reverse(Tail(s)), Head(s))

\* C6: the transaction list is most-recent-first: it starts with the added
\* transactions in the exact reverse of the order of the addTransaction
\* calls (the last one at index 0), none lost or duplicated; all that can
\* follow them are the demo transactions of getChildren.
C6_MostRecentFirst ==
  /\ Len(transactions) >= Len(added)
  /\ SubSeq(transactions, 1, Len(added)) = Reverse(added)
  /\ added # <<>> => transactions[1] = added[Len(added)]
  /\ SubSeq(transactions, Len(added) + 1, Len(transactions))
       \in {<<>>, MockTransactions}

\* C6 witness: three transactions were added, the first and the last differ
C6_Witness ==
  /\ Len(added) = 3
  /\ added[1] # added[3]
  /\ transactions[1] = added[3]
  /\ transactions[3] = added[1]

\* C25: getChildren is a pure read: whatever the connection state and the
\* element, a call leaves the transaction list unchanged, so the list only
\* ever holds transactions that were added through addTransaction.
C25_GetChildrenIsPureRead ==
  /\ [][flatChildren'.drawn => transactions' = transactions]_vars
  /\ [](\A i \in 1..Len(transactions) :
          \E j \in 1..Len(added) : transactions[i] = added[j])

(***************************************************************************)
(* Claims about the Audit Dashboard tree                                   *)
(***************************************************************************)

\* how many vulnerabilities of the list have severity S, whatever the case
CountOfSeverity(vulns, S) ==
  Cardinality({i \in 1..Len(vulns) :
                 ToLowerCase(vulns[i].severity) = ToLowerCase(S)})

C8_AuditShowsHighAndMedium ==
  [][/\ Len(auditTimers') > Len(auditTimers)
          => UNCHANGED <<vulnerabilities, auditTree>>
     /\ Len(auditTimers') < Len(auditTimers)
          => getChildren(vulnerabilities', "root")
               = <<[label |-> "High (1)", contextValue |-> "severity-high"],
                   [label |-> "Medium (1)", contextValue |-> "severity-medium"]>>
    ]_vars

\* C8 witness: an audit ran over a non-empty list, and the host then drew
\* the root of the tree from the audit's two vulnerabilities
C8_Witness ==
  /\ auditTimers = <<>>
  /\ vulnerabilities = mockVulnerabilities("a.sol")
  /\ auditTree.element = "root"
  /\ auditTree.items
       = <<[label |-> "High (1)", contextValue |-> "severity-high"],
           [label |-> "Medium (1)", contextValue |-> "severity-medium"]>>

(***************************************************************************)
(* Claims about location parsing                                           *)
(***************************************************************************)

\* C9: a vulnerability whose location does not match the pattern (a missing
\* location included) gets no diagnostic from updateDiagnostics, and the
\* showVulnerability / applyFix handlers run on it set no selection, make
\* no edit and show no error.  (A file that cannot be opened is not the
\* location's doing, so the handlers are looked at on a file that opens.)
C9_UnparsableLocationIsSkippedSilently ==
  /\ locLast.handler = "updateDiagnostics"
       => \A i \in 1..Len(locLast.vulns) :
            ~lineMatch(locLast.vulns[i].location).matched
              => \A d \in 1..Len(solDiagnostics) : solDiagnostics[d].of # i
  /\ (/\ locLast.handler \in {"showVulnerability", "applyFix",
                              "dashboardShowVulnerability"}
      /\ ~OpenFails(locLast.filePath)
      /\ ~lineMatch(locLast.vulns[1].location).matched)
       => (~locLast.selection /\ ~locLast.edit /\ ~locLast.error)

(***************************************************************************)
(* Claims about DeploymentUtils                                            *)
(***************************************************************************)

IsPrefix(s, t) == Len(s) <= Len(t) /\ \A i \in 1..Len(s) : s[i] = t[i]

\* the Transaction record of call p is in the Transaction Center
Appended(p) == \E i \in 1..Len(transactions) : transactions[i] = DeployRecord(p)

\* C10: deployContract enters its steps in the order compile, prompt,
\* deploy, register, append, each at most once; a step is entered only after
\* every earlier step succeeded; a call in which a step failed has stopped
\* with the error notification shown and the error rethrown, and has no
\* Transaction record; a Transaction record is there only when compile,
\* prompt, deploy and register all succeeded.
C10_PipelineStopsAtFirstFailure ==
  \A p \in DeployInvocations :
    LET d == deployments[p] IN
    /\ IsPrefix(d.log, Pipeline)
    /\ Len(d.outcomes) \in {Len(d.log) - 1, Len(d.log)}
    /\ \A i \in 1..(Len(d.log) - 1) : d.outcomes[i] = "ok"
    /\ (\E i \in 1..Len(d.outcomes) : d.outcomes[i] = "failed")
         => d.pc = "failed"
    /\ d.pc = "failed" => d.errorShown /\ d.threw /\ ~Appended(p)
    /\ Appended(p) => /\ d.log = Pipeline
                      /\ \A i \in 1..Len(Pipeline) : d.outcomes[i] = "ok"
    /\ d.log = Pipeline => Appended(p)

\* one call went through and appended its record; in the other the deploy
\* step failed, after compile and prompt, and the pipeline stopped there
C10_Witness ==
  \E p, q \in DeployInvocations :
    /\ deployments[p].pc = "done"
    /\ Appended(p)
    /\ deployments[q].pc = "failed"
    /\ deployments[q].log = <<"compile", "prompt", "deploy">>
    /\ deployments[q].outcomes = <<"ok", "ok", "failed">>
    /\ deployments[q].errorShown
    /\ ~Appended(q)

\* C11: a call of deployContract whose constructor-parameter prompt was
\* dismissed makes no deploy or register call, appends no Transaction
\* record, shows no error notification and throws nothing to its caller.
C11_CancelledPromptIsSilent ==
  \A p \in DeployInvocations :
    deployments[p].cancelled
      => /\ \A i \in 1..Len(deployments[p].log) :
              deployments[p].log[i] \notin {"deploy", "register", "append"}
         /\ ~Appended(p)
         /\ ~deployments[p].errorShown
         /\ ~deployments[p].threw

\* call p starts and issues its own compile call
StartsOwnCompile(p) == StartDeploy /\ deployments'[p].pc = "compiling"

\* C15: nothing guards against a second deployment while one is in flight:
\* a call that has not started can start and issue its own compile call
\* whatever the other call is waiting for, and every call that ran through
\* the pipeline has its own Transaction record, so the list holds as many
\* records as calls ran through.
C15_NoInFlightGuard ==
  /\ \A p \in DeployInvocations :
       deployments[p].pc = "idle" => ENABLED StartsOwnCompile(p)
  /\ Len(transactions)
       = Cardinality({p \in DeployInvocations : deployments[p].log = Pipeline})

\* the second call started while the first was in flight; both compiled,
\* both deployed, and two Transaction records were appended
C15_Witness ==
  \E p, q \in DeployInvocations :
    /\ p # q
    /\ deployments[q].overlapped
    /\ deployments[p].log = Pipeline
    /\ deployments[q].log = Pipeline
    /\ Appended(p) /\ Appended(q)
    /\ Len(transactions) = 2

(***************************************************************************)
(* Claims about the webview panels                                         *)
(***************************************************************************)

\* C12: for every panel holder at most one panel is alive, the holder's
\* reference is set exactly when a panel is alive, and a step creates a
\* panel only when none is alive, and then exactly one.
C12_AtMostOneLivePanel ==
  /\ [](\A h \in PanelHolders :
          /\ Cardinality(panels[h].live) <= 1
          /\ panels[h].current # NoPanel <=> panels[h].live # {})
  /\ [][\A h \in PanelHolders :
          panels'[h].nextPanel # panels[h].nextPanel
            => /\ panels[h].live = {}
               /\ panels'[h].nextPanel = panels[h].nextPanel + 1]_vars

(***************************************************************************)
(* Claims about ApiService                                                 *)
(***************************************************************************)

\* C13: a failed request of a method other than checkHealth rejects with a
\* single string: the detail of the response body if the body has one (an
\* empty detail counts as none), otherwise the error's message if it has
\* one, otherwise 'Unknown error'; a failed checkHealth does not reject and
\* returns false.
C13_RejectionIsOneStringByPriority ==
  apiLast.failed
    => IF apiLast.method = "checkHealth"
       THEN ~apiLast.rejected /\ apiLast.value = Str("false")
       ELSE /\ apiLast.rejected
            /\ apiLast.value.type = "string"
            /\ apiLast.value =
                 IF apiLast.error.detail \notin {Undefined, Str("")}
                 THEN apiLast.error.detail
                 ELSE IF apiLast.error.message \notin {Undefined, Str("")}
                      THEN apiLast.error.message
                      ELSE Str("Unknown error")

(***************************************************************************)
(* Claims about the command handlers                                       *)
(***************************************************************************)

\* C14: a handler run makes the remote calls of its command in order, each
\* at most once; every call before its last one succeeded, so nothing is
\* called after a failure; and the run whose call failed has received the
\* failure and ended.
C14_NoRetryAfterFailure ==
  \A i \in 1..Len(invocations) :
    LET inv == invocations[i] IN
    /\ IsPrefix([k \in 1..Len(inv.calls) |-> inv.calls[k].endpoint],
                RemoteCalls(inv.command))
    /\ \A k \in 1..(Len(inv.calls) - 1) : inv.calls[k].outcome = "ok"
    /\ inv.calls[Len(inv.calls)].outcome = "failed"
         => inv.pc = "done" /\ inv.errorShown
    /\ inv.calls[Len(inv.calls)].outcome = "pending" <=> inv.pc = "awaiting"

\* a deployment whose registration failed after compile and deploy went
\* through, next to an audit whose only call failed
C14_Witness ==
  \E i, j \in 1..Len(invocations) :
    /\ invocations[i].command = "DeploymentUtils.deployContract"
    /\ Len(invocations[i].calls) = 3
    /\ invocations[i].calls[3].outcome = "failed"
    /\ invocations[i].pc = "done"
    /\ invocations[j].command = "extension.auditContract"
    /\ invocations[j].calls = <<[endpoint |-> "POST /api/v1/audit",
                                 outcome |-> "failed"]>>

(***************************************************************************)
(* Claims about MockApiService                                             *)
(***************************************************************************)
\* s holds m as a run of consecutive characters
Contains(s, m) ==
  \E i \in 0..(Len(s) - Len(m)) : SubSeq(s, i + 1, i + Len(m)) = m

\* C16: a call of MockApiService.chatCompletion(m) or queryDocumentation(q)
\* eventually resolves, and never rejects: its response has a non-empty
\* message that holds the argument verbatim and a non-empty sources list.
C16_MockEventuallyAnswers ==
  /\ [](\A c \in MockInvocations :
          /\ mockCalls[c].pc \in {"idle", "waiting", "resolved"}
          /\ mockCalls[c].pc = "resolved" =>
               /\ Len(mockCalls[c].response.message) > 0
               /\ Contains(mockCalls[c].response.message, mockCalls[c].arg)
               /\ Len(mockCalls[c].response.sources) > 0)
  /\ \A c \in MockInvocations :
       (mockCalls[c].pc = "waiting") ~> (mockCalls[c].pc = "resolved")

\* a chat completion and a documentation query, one of them for a message
\* with a quote character in it, have both resolved
C16_Witness ==
  /\ mockCalls[1].pc = "resolved"
  /\ mockCalls[1].method = "chatCompletion"
  /\ mockCalls[1].arg = <<"a", "\"">>
  /\ mockCalls[2].pc = "resolved"
  /\ mockCalls[2].method = "queryDocumentation"
  /\ Len(mockCalls[2].arg) > 0

(***************************************************************************)
(* Claims about the chat view                                              *)
(***************************************************************************)
\* C17: a send action on an empty or whitespace-only input posts no
\* 'sendMessage' event; hence no user entry of the chat history is empty or
\* padded with whitespace, and no API call is made for such a message.
C17_EmptyInputIsNotSent ==
  /\ chatLast.posted # "none" /\ (\A i \in 1..Len(chatLast.input) :
                                    IsWhiteSpace(chatLast.input[i]))
       => chatLast.posted = "nothing"
  /\ \A i \in 1..Len(chatMessages) :
       chatMessages[i].role = "user" =>
         /\ chatMessages[i].content # <<>>
         /\ ~IsWhiteSpace(Head(chatMessages[i].content))
  /\ \A r \in 1..Len(chatRequests) :
       /\ chatRequests[r].arg # <<>>
       /\ ~IsWhiteSpace(Head(chatRequests[r].arg))

\* the user pressed Send on a whitespace-only input, first of all: nothing
\* was posted, the history is empty and no API call was made
C17_Witness ==
  /\ chatLast = [input |-> <<" ", " ">>, posted |-> "nothing"]
  /\ chatInput = <<" ", " ">>
  /\ chatMessages = <<>>
  /\ chatRequests = <<>>

\* a chat request is in flight: its API call has not settled
ChatInFlight ==
  \E r \in 1..Len(chatRequests) : chatRequests[r].pc = "awaiting"

\* C18: whenever at least one chat request is in flight the last
\* typingIndicator posted has isTyping true, and once none is in flight the
\* last one posted has isTyping false.
C18_TypingIndicatorFollowsRequests ==
  /\ ChatInFlight => typingIndicator = "true"
  /\ chatRequests # <<>> /\ ~ChatInFlight => typingIndicator = "false"

(***************************************************************************)
(* Claims about failed audits                                              *)
(***************************************************************************)
\* C20: a failed audit is scoped to its invocation: when the audit call of
\* 'hivemind.auditContract' or of SolidityAuditProvider.auditDocument fails,
\* the handler ends with an error notification shown and no error thrown
\* on, and the published diagnostics, the stored vulnerability lists and
\* the dashboards are what they were.
C20_FailedAuditChangesNothing ==
  [][\A i \in 1..Len(invocations) :
       /\ invocations[i].command \in {"extension.auditContract", "auditDocument"}
       /\ invocations[i].pc = "awaiting"
       /\ invocations'[i].calls[1].outcome = "failed"
       => /\ invocations'[i].pc = "done"
          /\ invocations'[i].errorShown
          /\ ~invocations'[i].rethrown
          /\ UNCHANGED <<solDiagnostics, solVulnerabilities, panels, auditVars>>]_vars

\* an audit published diagnostics and filled the dashboard; the next audit
\* of the document failed and left them in place
C20_Witness ==
  /\ Len(invocations) = 2
  /\ invocations[1].command = "extension.auditContract"
  /\ invocations[1].calls[1].outcome = "ok"
  /\ invocations[2].command = "auditDocument"
  /\ invocations[2].calls[1].outcome = "failed"
  /\ invocations[2].errorShown
  /\ solDiagnostics # <<>>
  /\ panels["AuditDashboardPanel"].current # NoPanel
  /\ panels["AuditDashboardPanel"].shown.defined

\* the entries of the chat history for run r with a role
EntriesOf(messages, r, role) ==
  {i \in 1..Len(messages) : messages[i].run = r /\ messages[i].role = role}

\* the text an assistant entry must carry for what the call settled with
Carries(entry, outcome) ==
  CASE outcome.kind = "response" /\ outcome.text # "undefined"
         -> ~entry.isError /\ entry.content = <<outcome.text>>
    [] outcome.kind = "response" /\ outcome.text = "undefined"
         -> ~entry.isError
            /\ entry.content = <<"Sorry, I couldn't process your request.">>
    [] outcome.kind = "error"
         -> entry.isError /\ \E i \in 1..Len(entry.content) :
                               entry.content[i] = outcome.text

\* C21: every 'sendMessage' event handled appends exactly one user entry at
\* once, and eventually exactly one assistant entry for it: the response
\* content (or the apology when the response has no message) on success, an
\* entry flagged isError that carries the error text on failure; the
\* webview is sent the updated history after each append.
C21_OneAnswerPerMessage ==
  /\ [][\A r \in ChatRuns :
          /\ Len(chatRequests) < r /\ Len(chatRequests') >= r
               => /\ chatMessages' = Append(chatMessages, chatMessages'[Len(chatMessages')])
                  /\ chatMessages'[Len(chatMessages')].role = "user"
                  /\ chatMessages'[Len(chatMessages')].content = chatRequests'[r].arg
          /\ r <= Len(chatRequests) /\ chatRequests[r].pc = "awaiting"
               /\ chatRequests'[r].pc # "awaiting"
               => /\ chatMessages' = Append(chatMessages, chatMessages'[Len(chatMessages')])
                  /\ chatMessages'[Len(chatMessages')].role = "assistant"
                  /\ Carries(chatMessages'[Len(chatMessages')], chatRequests'[r].outcome)]_vars
  /\ [](chatView = chatMessages)
  /\ \A r \in ChatRuns :
       (r <= Len(chatRequests) /\ chatRequests[r].pc = "awaiting")
         ~> (r <= Len(chatRequests) /\ chatRequests[r].pc # "awaiting")

\* C24: under any interleaving of 'sendMessage' and 'clearChat' events with
\* pending API replies the chat history is a sequence of user/assistant
\* pairs: every assistant entry is immediately preceded by the user entry
\* it answers, so none appears for a user message that clearChat removed.
C24_HistoryIsPairs ==
  \A i \in 1..Len(chatMessages) :
    chatMessages[i].role = "assistant" =>
      /\ i > 1
      /\ chatMessages[i - 1].role = "user"
      /\ chatMessages[i - 1].run = chatMessages[i].run

(***************************************************************************)
(* Claims about the 'hivemind.deployContract' command                      *)
(***************************************************************************)
\* C22: a run of 'hivemind.deployContract' sends the deploy request only if
\* in that run the active editor held a Solidity document, isConnected()
\* returned true and the user then chose 'Deploy'; a run that found the
\* session not connected, or whose confirmation was dismissed or answered
\* otherwise, sends none.
C22_DeployNeedsConnectionAndConfirmation ==
  \A r \in DeployCommandRuns :
    LET run == deployCommands[r] IN
    /\ run.requests <= 1
    /\ run.requests = 1 =>
         /\ run.editor = "solidity"
         /\ run.sawConnected
         /\ run.answer = "Deploy"
    /\ run.pc # "idle" /\ ~run.sawConnected => run.requests = 0
    /\ run.answer \in {"Cancel", "undefined", "Connect"} => run.requests = 0

\* one run sent its request after 'Deploy'; the other found the session
\* connected too, had its confirmation dismissed and sent nothing
C22_Witness ==
  /\ deployCommands[1].pc = "done"
  /\ deployCommands[1].requests = 1
  /\ deployCommands[1].answer = "Deploy"
  /\ deployCommands[2].pc = "done"
  /\ deployCommands[2].sawConnected
  /\ deployCommands[2].answer = "undefined"
  /\ deployCommands[2].requests = 0

(***************************************************************************)
(* Claims about the grouped Transaction Center                             *)
(***************************************************************************)
\* C26: in the grouped tree, while connected, every recorded transaction is
\* visible under exactly one type group: the root has a group for its
\* type, the number in that group's label is the number of children the
\* group expands to, and the transaction is among those children.
C26_EveryTransactionIsInItsGroup ==
  grouped.root.drawn /\ grouped.root.connected =>
    \A i \in 1..Len(grouped.transactions) :
      LET tx == grouped.transactions[i]
          groups == {g \in 1..Len(grouped.root.items) :
                       \E k \in 1..Len(groupedGetChildren(grouped.transactions, TRUE,
                                                          grouped.root.items[g])) :
                         groupedGetChildren(grouped.transactions, TRUE,
                                            grouped.root.items[g])[k].id = tx.id}
      IN /\ Cardinality(groups) = 1
         /\ \A g \in groups :
              /\ lowerCase(grouped.root.items[g].label) = lowerCase(tx.type)
              /\ grouped.root.items[g].count
                   = Len(groupedGetChildren(grouped.transactions, TRUE,
                                            grouped.root.items[g]))

(***************************************************************************)
(* Claims about the Audit Dashboard panel                                  *)
(***************************************************************************)
\* the summary card that shows a severity
CardOf(severity) == IF severity = "informational" THEN "info" ELSE severity

\* the findings of the rendered result with a severity, in any letter case
WithSeverity(severity) ==
  {i \in 1..Len(dashboardHtml.severities) :
     ToLowerCase(dashboardHtml.severities[i]) = severity}

\* C27: in the panel's HTML every vulnerability whose severity is Critical,
\* High, Medium, Low or Informational (in any letter case) is counted in
\* exactly one of the five summary cards: each card's count is the number
\* of vulnerabilities of its severity, and the five counts sum to the
\* number of such vulnerabilities.
C27_SummaryCardsCountEverySeverity ==
  /\ \A severity \in {"critical", "high", "medium", "low", "informational"} :
       dashboardHtml.counts[CardOf(severity)] = Cardinality(WithSeverity(severity))
  /\ dashboardHtml.counts["critical"] + dashboardHtml.counts["high"]
       + dashboardHtml.counts["medium"] + dashboardHtml.counts["low"]
       + dashboardHtml.counts["info"]
       = Cardinality(UNION {WithSeverity(severity) :
                              severity \in {"critical", "high", "medium", "low",
                                            "informational"}})

(***************************************************************************)
(* Claims about the stored vulnerability lists                             *)
(***************************************************************************)
\* C28: the vulnerabilities stored for a document URI always come from an
\* audit of that document: under every interleaving of auditContract calls
\* and changes of the active editor the list stored under u is the
\* static_analysis of an audit whose code was the text of u, and of those
\* that have answered it is the one requested last.
C28_StoredListIsOfItsDocument ==
  \A u \in DOMAIN solAudit.stored :
    solAudit.stored[u].defined =>
      /\ solAudit.stored[u].doc = u
      /\ \A j \in SolAuditRuns :
           solAudit.audits[j].pc = "stored" /\ solAudit.audits[j].doc = u
             => j <= solAudit.stored[u].from

(***************************************************************************)
(* Claims about the panels' message handlers                               *)
(***************************************************************************)
\* C29: no message is posted to a webview panel after it was disposed: a
\* handler run of AgentHubPanel or AuditDashboardPanel whose call settles
\* after the panel was closed posts nothing to it, and a disposed panel
\* has no disposables left and is not the current panel of its class.
C29_NothingPostedAfterDispose ==
  \A c \in PanelClasses :
    /\ \A r \in HandlerRuns : panelHandlers[c].runs[r].posted # "disposed"
    /\ panelHandlers[c].panel = "disposed" =>
         /\ panelHandlers[c].disposables = 0
         /\ ~panelHandlers[c].currentPanel

(***************************************************************************)
(* Claims about activation                                                 *)
(***************************************************************************)
\* C30: during one activation no command identifier is passed to
\* registerCommand a second time, so no registerCommand call throws, and
\* once activate() is past its last call every command is registered.
C30_EachCommandRegisteredOnce ==
  /\ activation.threw = "none"
  /\ \A i, j \in 1..(activation.pc - 1) : activate[i] = activate[j] => i = j
  /\ activation.pc > Len(activate) => activation.registered = CommandIds

====
